---- MODULE Spec2Model ----
(***************************************************************************)
(* PChat system-tray integration layer: the three platform backends        *)
(* (tray-linux.c, tray-windows.c, tray-macos.m) and the dispatcher         *)
(* (tray-backend.c), modelled as one state machine.                        *)
(*                                                                         *)
(* One build has exactly one platform (the dispatcher's #if chain), so     *)
(* Init picks the platform and only that platform's backend ever acts.     *)
(* The host owns one handle H; NULL is the null pointer.  Native objects   *)
(* (HICON, NSImage, NSStatusItem) are numbered from nextId, 0 is NULL/nil. *)
(*                                                                         *)
(* The update checker (update-checker.c) is a second state machine over    *)
(* update_state and updEnv, with specifications of its own.                *)
(***************************************************************************)
EXTENDS Integers, Sequences, FiniteSets, TLC

VARIABLES
    platform,   \* "linux" | "windows" | "macos": the build's platform
    hstate,     \* the host's handle: "none" (not created) | "live" | "freed"
    nops,       \* number of host calls made so far
    call,       \* the step just taken: which function, through which layer, with which arguments
    eff,        \* what that step did: native calls in order, callbacks invoked in order, return value
    hist,       \* what the host has asked of the live handle so far
    nextId,     \* next fresh native-object id
    pixRef,     \* GdkPixbuf references held by the tray code, per image
    win,        \* struct _TrayBackend of tray-windows.c
    winEnv,     \* the Windows shell, window and GDI objects
    lin,        \* struct _TrayBackend of tray-linux.c
    linEnv,     \* the AppIndicator, the GtkMenu and /tmp
    mac,        \* struct _TrayBackend of tray-macos.m
    macEnv,     \* NSApp, the status bar, the delegate, the deferred-creation record
    bitmap,     \* the pixel copy of pixbuf_to_hicon: source, destination, loop position
    update_state, \* static struct update_state of update-checker.c
    updEnv      \* libsoup sessions and requests, and the update dialogs

vars == <<platform, hstate, nops, call, eff, hist, nextId, pixRef,
          win, winEnv, lin, linEnv, mac, macEnv, bitmap, update_state, updEnv>>

(***************************************************************************)
(* Bounds and input sets                                                   *)
(***************************************************************************)
MaxOps == 3      \* host calls per behaviour on the Linux and Windows builds
MaxMacOps == 2   \* host calls per behaviour on the macOS build, where they interleave with the poll
MaxBusyPolls == 1 \* retries of the deferred-creation poll the host interleaves calls with
MaxItems == 1    \* menu items the host's menu delegate adds per invocation
ImgWidth == 2    \* width in pixels of the image whose pixels are copied
ImgHeight == 1   \* height in pixels of that image
MaxUpdOps == 4   \* calls the host makes to the update checker per behaviour
MaxComponents == 3 \* dot-separated components of the version strings compared

NULL == "NULL"
H == "H"
Platforms == {"linux", "windows", "macos"}
Vias == {"dispatcher", "backend"}
Images == {"imgA", "imgB"}
Tooltips == {"tipA", "tipLong"}
ImageArgs == Images \cup {NULL}
\* The images are interchangeable, so create is given the first one or none.
NewImageArgs == {"imgA", NULL}
TooltipArgs == Tooltips \cup {NULL}
HandleArgs == IF hstate = "live" THEN {NULL, H} ELSE {NULL}

\* A callback slot is a (function pointer, userdata) pair.
NoCb == <<NULL, NULL>>
CbA == <<"fnA", "udA">>
CallbackArgs == {NoCb, CbA}

BoolStr(b) == IF b THEN "TRUE" ELSE "FALSE"
Opt(cond, s) == IF cond THEN s ELSE << >>

Ref(refs, img) == [refs EXCEPT ![img] = @ + 1]
Unref(refs, img) == [refs EXCEPT ![img] = @ - 1]
UnrefOpt(refs, img) == IF img = NULL THEN refs ELSE Unref(refs, img)
NoRefs == [i \in Images |-> 0]

\* The callbacks of a call as entries of its program-order record.
CbLabels(cbs) == [i \in 1..Len(cbs) |-> "callback:" \o cbs[i][1]]

\* What a call did: its native calls, the callbacks it invoked, its return
\* value, and both kinds of call in program order (the native calls first
\* unless the operation says otherwise).
Effect(native, cbs, ret) ==
    [native |-> native, cbs |-> cbs, ret |-> ret, order |-> native \o CbLabels(cbs)]

\* How a conversion shows in the record of native calls: by its name when it
\* produced an object, with "=NULL" appended when it produced none.
Converted(fn, result) == IF result = 0 THEN fn \o "=NULL" ELSE fn

(***************************************************************************)
(* Shell-notification-icon backend (tray-windows.c)                        *)
(***************************************************************************)
TRAY_ID == 1
GDK_CURRENT_TIME == 0
SzTipChars == 128

\* Length in characters of each tooltip the host may pass.
TipLen(t) == IF t = "tipLong" THEN 200 ELSE 4

\* MultiByteToWideChar(CP_UTF8, 0, tooltip, -1, szTip, 128): the text and its
\* terminator are stored when they fit; otherwise the call fails having filled
\* the buffer with the first 128 characters.
MultiByteToWideChar(tip) == IF TipLen(tip) + 1 <= SzTipChars THEN tip ELSE "tipLong[0..127]"

WinBackend0 ==
    [nid |-> [hWnd |-> 0, uID |-> 0, hIcon |-> 0, szTip |-> ""],
     hwnd |-> 0, hicon |-> 0, current_icon |-> NULL, visible |-> FALSE,
     activate_callback |-> NoCb, menu_callback |-> NoCb, embedded_callback |-> NoCb]

WinEnv0 ==
    [hwndAlive |-> FALSE,    \* the hidden window exists
     hicons |-> {},          \* HICONs created and not destroyed
     reg |-> FALSE,          \* the shell holds an icon for (hwnd, TRAY_ID)
     shellIcon |-> 0,        \* the icon the shell displays
     shellTip |-> "",        \* the tooltip the shell displays
     adds |-> 0, modifies |-> 0, deletes |-> 0,   \* requests issued so far
     quitPosted |-> FALSE]   \* WM_QUIT was posted to the thread's queue

\* Shell_NotifyIconW(NIM_ADD): fails when the shell is unavailable (ok = FALSE)
\* or when the icon is already registered.
ShellAdd(env, nid, ok) ==
    [env EXCEPT !.adds = @ + 1,
                !.reg = @ \/ ok,
                !.shellIcon = IF ok /\ ~env.reg THEN nid.hIcon ELSE @,
                !.shellTip = IF ok /\ ~env.reg THEN nid.szTip ELSE @]

\* Shell_NotifyIconW(NIM_MODIFY): uFlags has NIF_ICON | NIF_TIP, so both are replaced.
ShellModify(env, nid) ==
    [env EXCEPT !.modifies = @ + 1,
                !.shellIcon = IF env.reg THEN nid.hIcon ELSE @,
                !.shellTip = IF env.reg THEN nid.szTip ELSE @]

\* Shell_NotifyIconW(NIM_DELETE)
ShellDelete(env) ==
    [env EXCEPT !.deletes = @ + 1, !.reg = FALSE, !.shellIcon = 0, !.shellTip = ""]

\* pixbuf_to_hicon: a fresh HICON, or NULL when CreateDIBSection or
\* CreateIconIndirect fails (convOk = FALSE) or the pixbuf is NULL.
pixbuf_to_hicon(pixbuf, convOk) == IF pixbuf # NULL /\ convOk THEN nextId ELSE 0

\* The pixel copy of pixbuf_to_hicon.  A GdkPixbuf row holds width * channels
\* bytes and is padded to a multiple of four.
Byte == 0..255
Rowstride(channels) == 4 * ((ImgWidth * channels + 3) \div 4)

\* The source image: pixel (0, 0) is first, every other pixel is filled from
\* its offset, padding bytes are 0.
Pixels(first, channels) ==
    [off \in 0..(Rowstride(channels) * ImgHeight - 1) |->
        LET y == off \div Rowstride(channels)
            x == (off % Rowstride(channels)) \div channels
            k == (off % Rowstride(channels)) % channels
        IN IF x >= ImgWidth THEN 0
           ELSE IF x = 0 /\ y = 0 THEN first[k + 1]
           ELSE (37 * off + 11) % 256]

\* pc: "idle" (no conversion running), "copy" (inside the loops), "done".
Bitmap0 == [channels |-> 4, pixels |-> << >>, dest |-> << >>, x |-> 0, y |-> 0, pc |-> "idle"]

\* Fault injection: the product r * a kept in a guchar before the division.
premultiply_in_guchar(c, a) == IF a < 255 THEN (((c * a) % 256) \div 255) % 256 ELSE c

\* r = (r * a) / 255: the operands are promoted to int, the quotient is
\* stored in a guchar.
premultiply(c, a) == IF a < 255 THEN ((c * a) \div 255) % 256 ELSE c

\* One iteration of the inner loop: read src[0..3], premultiply, store BGRA,
\* advance src by channels; the outer loop moves to the next row.
copy_pixel ==
    /\ bitmap.pc = "copy"
    /\ LET src == bitmap.y * Rowstride(bitmap.channels) + bitmap.x * bitmap.channels
           r == bitmap.pixels[src]
           g == bitmap.pixels[src + 1]
           b == bitmap.pixels[src + 2]
           a == IF bitmap.channels = 4 THEN bitmap.pixels[src + 3] ELSE 255
           lastX == bitmap.x + 1 = ImgWidth
           lastY == bitmap.y + 1 = ImgHeight
       IN bitmap' = [bitmap EXCEPT
                        !.dest = @ \o <<premultiply(b, a), premultiply(g, a),
                                         premultiply(r, a), a>>,
                        !.x = IF lastX THEN 0 ELSE @ + 1,
                        !.y = IF lastX THEN @ + 1 ELSE @,
                        !.pc = IF lastX /\ lastY THEN "done" ELSE "copy"]

\* An operation that returns without touching anything.
NoOp(ret) ==
    /\ eff' = Effect(<< >>, << >>, ret)
    /\ UNCHANGED <<hstate, nextId, pixRef, win, winEnv, lin, linEnv, mac, macEnv>>

WinStep(h2, id2, refs2, w2, e2, effect) ==
    /\ hstate' = h2
    /\ nextId' = id2
    /\ pixRef' = refs2
    /\ win' = w2
    /\ winEnv' = e2
    /\ eff' = effect
    /\ UNCHANGED <<lin, linEnv, mac, macEnv>>

\* Fault injection: a tray_windows_new that returns the handle, with no
\* window, when CreateWindowExW fails.
new_keeping_handle(icon, tooltip, wndOk, convOk) ==
    IF ~wndOk
    THEN WinStep("live", nextId, pixRef, WinBackend0, winEnv,
                 Effect(<<"RegisterClassExW", "CreateWindowExW=NULL">>, << >>, H))
    ELSE LET hic == pixbuf_to_hicon(icon, convOk)
             b1 == [WinBackend0 EXCEPT !.hwnd = 1,
                                       !.nid = [hWnd |-> 1, uID |-> TRAY_ID, hIcon |-> 0, szTip |-> ""]]
             b2 == IF icon # NULL
                   THEN [b1 EXCEPT !.current_icon = icon, !.hicon = hic, !.nid.hIcon = hic]
                   ELSE b1
             b3 == IF tooltip # NULL
                   THEN [b2 EXCEPT !.nid.szTip = MultiByteToWideChar(tooltip)]
                   ELSE b2
         IN WinStep("live",
                    IF hic # 0 THEN nextId + 1 ELSE nextId,
                    IF icon # NULL THEN Ref(pixRef, icon) ELSE pixRef,
                    b3,
                    [winEnv EXCEPT !.hwndAlive = TRUE,
                                   !.hicons = IF hic # 0 THEN @ \cup {hic} ELSE @],
                    Effect(<<"RegisterClassExW", "CreateWindowExW">>
                             \o Opt(icon # NULL, <<"g_object_ref", Converted("pixbuf_to_hicon", hic)>>),
                           << >>, H))

\* tray_windows_new: wndOk is whether CreateWindowExW returned a window.
tray_windows_new(icon, tooltip, wndOk, convOk) ==
    IF ~wndOk
    THEN \* g_free(backend); return NULL
         WinStep(hstate, nextId, pixRef, win, winEnv,
                 Effect(<<"RegisterClassExW", "CreateWindowExW=NULL", "g_free">>, << >>, NULL))
    ELSE LET hic == pixbuf_to_hicon(icon, convOk)
             b1 == [WinBackend0 EXCEPT !.hwnd = 1,
                                       !.nid = [hWnd |-> 1, uID |-> TRAY_ID, hIcon |-> 0, szTip |-> ""]]
             b2 == IF icon # NULL
                   THEN [b1 EXCEPT !.current_icon = icon, !.hicon = hic, !.nid.hIcon = hic]
                   ELSE b1
             b3 == IF tooltip # NULL
                   THEN [b2 EXCEPT !.nid.szTip = MultiByteToWideChar(tooltip)]
                   ELSE b2
         IN WinStep("live",
                    IF hic # 0 THEN nextId + 1 ELSE nextId,
                    IF icon # NULL THEN Ref(pixRef, icon) ELSE pixRef,
                    b3,
                    [winEnv EXCEPT !.hwndAlive = TRUE,
                                   !.hicons = IF hic # 0 THEN @ \cup {hic} ELSE @],
                    Effect(<<"RegisterClassExW", "CreateWindowExW">>
                             \o Opt(icon # NULL, <<"g_object_ref", Converted("pixbuf_to_hicon", hic)>>),
                           << >>, H))

\* Fault injection: tray_windows_set_icon without DestroyIcon on the old icon.
set_icon_keeping_old_hicon(backend, icon, convOk) ==
    IF backend = NULL \/ icon = NULL
    THEN NoOp("void")
    ELSE LET hic == pixbuf_to_hicon(icon, convOk)
             b2 == [win EXCEPT !.current_icon = icon, !.hicon = hic, !.nid.hIcon = hic]
             e1 == [winEnv EXCEPT !.hicons = @ \cup (IF hic # 0 THEN {hic} ELSE {})]
         IN WinStep(hstate,
                    IF hic # 0 THEN nextId + 1 ELSE nextId,
                    Ref(UnrefOpt(pixRef, win.current_icon), icon),
                    b2,
                    IF win.visible THEN ShellModify(e1, b2.nid) ELSE e1,
                    Effect(Opt(win.current_icon # NULL, <<"g_object_unref">>)
                             \o <<"g_object_ref", Converted("pixbuf_to_hicon", hic)>>
                             \o Opt(win.visible, <<"NIM_MODIFY">>),
                           << >>, "void"))

\* tray_windows_set_icon
tray_windows_set_icon(backend, icon, convOk) ==
    IF backend = NULL \/ icon = NULL
    THEN NoOp("void")
    ELSE LET hic == pixbuf_to_hicon(icon, convOk)
             b2 == [win EXCEPT !.current_icon = icon, !.hicon = hic, !.nid.hIcon = hic]
             e1 == [winEnv EXCEPT !.hicons = (@ \ {win.hicon}) \cup (IF hic # 0 THEN {hic} ELSE {})]
         IN WinStep(hstate,
                    IF hic # 0 THEN nextId + 1 ELSE nextId,
                    Ref(UnrefOpt(pixRef, win.current_icon), icon),
                    b2,
                    IF win.visible THEN ShellModify(e1, b2.nid) ELSE e1,
                    Effect(Opt(win.hicon # 0, <<"DestroyIcon">>)
                             \o Opt(win.current_icon # NULL, <<"g_object_unref">>)
                             \o <<"g_object_ref", Converted("pixbuf_to_hicon", hic)>>
                             \o Opt(win.visible, <<"NIM_MODIFY">>),
                           << >>, "void"))

\* Fault injection: tray_windows_set_tooltip without the test of backend->visible.
set_tooltip_always_modifies(backend, tooltip) ==
    IF backend = NULL \/ tooltip = NULL
    THEN NoOp("void")
    ELSE LET b2 == [win EXCEPT !.nid.szTip = MultiByteToWideChar(tooltip)]
         IN WinStep(hstate, nextId, pixRef, b2, ShellModify(winEnv, b2.nid),
                    Effect(<<"NIM_MODIFY">>, << >>, "void"))

\* tray_windows_set_tooltip
tray_windows_set_tooltip(backend, tooltip) ==
    IF backend = NULL \/ tooltip = NULL
    THEN NoOp("void")
    ELSE LET b2 == [win EXCEPT !.nid.szTip = MultiByteToWideChar(tooltip)]
         IN WinStep(hstate, nextId, pixRef, b2,
                    IF win.visible THEN ShellModify(winEnv, b2.nid) ELSE winEnv,
                    Effect(Opt(win.visible, <<"NIM_MODIFY">>), << >>, "void"))

\* Fault injection: tray_windows_set_visible without the tests of backend->visible.
set_visible_unconditional(backend, visible, addOk) ==
    IF backend = NULL
    THEN NoOp("void")
    ELSE IF visible
    THEN WinStep(hstate, nextId, pixRef,
                 [win EXCEPT !.visible = TRUE],
                 ShellAdd(winEnv, win.nid, addOk),
                 Effect(<<"NIM_ADD">>,
                        Opt(win.embedded_callback[1] # NULL,
                            << <<"embedded", win.embedded_callback[1], win.embedded_callback[2]>> >>),
                        "void"))
    ELSE WinStep(hstate, nextId, pixRef,
                 [win EXCEPT !.visible = FALSE],
                 ShellDelete(winEnv),
                 Effect(<<"NIM_DELETE">>, << >>, "void"))

\* Fault injection: tray_windows_set_visible that sends NIM_ADD on every
\* request to show, shown already or not.
set_visible_add_again(backend, visible, addOk) ==
    IF backend = NULL
    THEN NoOp("void")
    ELSE IF visible
    THEN WinStep(hstate, nextId, pixRef,
                 [win EXCEPT !.visible = TRUE],
                 ShellAdd(winEnv, win.nid, addOk),
                 Effect(<<"NIM_ADD">>,
                        Opt(win.embedded_callback[1] # NULL,
                            << <<"embedded", win.embedded_callback[1], win.embedded_callback[2]>> >>),
                        "void"))
    ELSE IF win.visible
    THEN WinStep(hstate, nextId, pixRef,
                 [win EXCEPT !.visible = FALSE],
                 ShellDelete(winEnv),
                 Effect(<<"NIM_DELETE">>, << >>, "void"))
    ELSE NoOp("void")

\* tray_windows_set_visible: addOk is whether the shell accepts the NIM_ADD.
tray_windows_set_visible(backend, visible, addOk) ==
    IF backend = NULL
    THEN NoOp("void")
    ELSE IF visible /\ ~win.visible
    THEN WinStep(hstate, nextId, pixRef,
                 [win EXCEPT !.visible = TRUE],
                 ShellAdd(winEnv, win.nid, addOk),
                 Effect(<<"NIM_ADD">>,
                        Opt(win.embedded_callback[1] # NULL,
                            << <<"embedded", win.embedded_callback[1], win.embedded_callback[2]>> >>),
                        "void"))
    ELSE IF ~visible /\ win.visible
    THEN WinStep(hstate, nextId, pixRef,
                 [win EXCEPT !.visible = FALSE],
                 ShellDelete(winEnv),
                 Effect(<<"NIM_DELETE">>, << >>, "void"))
    ELSE NoOp("void")

\* tray_windows_is_embedded
tray_windows_is_embedded(backend) == IF backend = NULL THEN FALSE ELSE win.visible

tray_windows_set_activate_callback(backend, cb) ==
    IF backend = NULL
    THEN NoOp("void")
    ELSE WinStep(hstate, nextId, pixRef, [win EXCEPT !.activate_callback = cb], winEnv,
                 Effect(<< >>, << >>, "void"))

tray_windows_set_menu_callback(backend, cb) ==
    IF backend = NULL
    THEN NoOp("void")
    ELSE WinStep(hstate, nextId, pixRef, [win EXCEPT !.menu_callback = cb], winEnv,
                 Effect(<< >>, << >>, "void"))

tray_windows_set_embedded_callback(backend, cb) ==
    IF backend = NULL
    THEN NoOp("void")
    ELSE WinStep(hstate, nextId, pixRef, [win EXCEPT !.embedded_callback = cb], winEnv,
                 Effect(<< >>, << >>, "void"))

\* Fault injection: tray_windows_destroy that destroys the hidden window
\* before it asks the shell to delete the icon.
destroy_window_first(backend) ==
    IF backend = NULL
    THEN NoOp("void")
    ELSE LET e1 == IF win.visible THEN ShellDelete(winEnv) ELSE winEnv
             e2 == IF win.hicon # 0 THEN [e1 EXCEPT !.hicons = @ \ {win.hicon}] ELSE e1
             e3 == IF win.hwnd # 0
                   THEN [e2 EXCEPT !.hwndAlive = FALSE, !.quitPosted = TRUE]
                   ELSE e2
         IN WinStep("freed", nextId,
                    UnrefOpt(pixRef, win.current_icon),
                    WinBackend0,
                    e3,
                    Effect(Opt(win.hwnd # 0, <<"DestroyWindow", "PostQuitMessage">>)
                             \o Opt(win.visible, <<"NIM_DELETE">>)
                             \o Opt(win.hicon # 0, <<"DestroyIcon">>)
                             \o Opt(win.current_icon # NULL, <<"g_object_unref">>)
                             \o <<"g_free">>,
                           << >>, "void"))

\* tray_windows_destroy.  DestroyWindow delivers WM_DESTROY to tray_wndproc,
\* which calls PostQuitMessage(0), before it returns.
tray_windows_destroy(backend) ==
    IF backend = NULL
    THEN NoOp("void")
    ELSE LET e1 == IF win.visible THEN ShellDelete(winEnv) ELSE winEnv
             e2 == IF win.hicon # 0 THEN [e1 EXCEPT !.hicons = @ \ {win.hicon}] ELSE e1
             e3 == IF win.hwnd # 0
                   THEN [e2 EXCEPT !.hwndAlive = FALSE, !.quitPosted = TRUE]
                   ELSE e2
         IN WinStep("freed", nextId,
                    UnrefOpt(pixRef, win.current_icon),
                    WinBackend0,
                    e3,
                    Effect(Opt(win.visible, <<"NIM_DELETE">>)
                             \o Opt(win.hicon # 0, <<"DestroyIcon">>)
                             \o Opt(win.current_icon # NULL, <<"g_object_unref">>)
                             \o Opt(win.hwnd # 0, <<"DestroyWindow", "PostQuitMessage">>)
                             \o <<"g_free">>,
                           << >>, "void"))

\* Fault injection: tray_wndproc that raises the window only after the menu
\* callback has returned.
wndproc_raise_after_menu(button) ==
    LET onLeft == button = "WM_LBUTTONUP" /\ win.activate_callback[1] # NULL
        onRight == button = "WM_RBUTTONUP" /\ win.menu_callback[1] # NULL
        effect == Effect(Opt(onRight, <<"SetForegroundWindow", "PostMessage">>),
                         Opt(onLeft, << <<"activate", win.activate_callback[1],
                                          win.activate_callback[2]>> >>)
                           \o Opt(onRight, << <<"menu", win.menu_callback[1], NULL, 3,
                                                GDK_CURRENT_TIME, win.menu_callback[2]>> >>),
                         "0")
    IN WinStep(hstate, nextId, pixRef, win, winEnv,
               IF onRight
               THEN [effect EXCEPT !.order = <<"callback:menu", "SetForegroundWindow",
                                               "PostMessage">>]
               ELSE effect)

\* tray_wndproc, WM_TRAYICON: button is the mouse message in LOWORD(lParam).
tray_wndproc(button) ==
    LET onLeft == button = "WM_LBUTTONUP" /\ win.activate_callback[1] # NULL
        onRight == button = "WM_RBUTTONUP" /\ win.menu_callback[1] # NULL
        effect == Effect(Opt(onRight, <<"SetForegroundWindow", "PostMessage">>),
                         Opt(onLeft, << <<"activate", win.activate_callback[1],
                                          win.activate_callback[2]>> >>)
                           \o Opt(onRight, << <<"menu", win.menu_callback[1], NULL, 3,
                                                GDK_CURRENT_TIME, win.menu_callback[2]>> >>),
                         "0")
    IN WinStep(hstate, nextId, pixRef, win, winEnv,
               IF onRight
               THEN [effect EXCEPT !.order = <<"SetForegroundWindow", "callback:menu",
                                               "PostMessage">>]
               ELSE effect)

(***************************************************************************)
(* Desktop-indicator backend (tray-linux.c)                                *)
(***************************************************************************)
Pid == "4242"    \* getpid(), printed with %d

LinBackend0 ==
    [indicator |-> 0, menu |-> 0, current_icon |-> NULL, icon_name |-> NULL,
     temp_icon_path |-> NULL,
     activate_callback |-> NoCb, menu_callback |-> NoCb, embedded_callback |-> NoCb]

LinEnv0 ==
    [indicatorAlive |-> FALSE,  \* the AppIndicator object exists
     status |-> "PASSIVE",      \* app_indicator_get_status
     themePath |-> NULL,        \* app_indicator_set_icon_theme_path
     iconName |-> NULL,         \* the icon name the indicator resolves
     iconDesc |-> NULL,         \* the accessible description given with the icon
     title |-> NULL,            \* app_indicator_set_title
     menuAlive |-> FALSE,       \* the GtkMenu exists
     menuSet |-> FALSE,         \* app_indicator_set_menu was called with it
     items |-> {},              \* children of the GtkMenu, each <<build, index>>
     builds |-> 0,              \* invocations of the menu delegate so far
     files |-> {},              \* icon files of this process in /tmp
     clock |-> 0]               \* g_get_real_time, in ticks

\* save_pixbuf_to_temp: the file name it writes; NULL when gdk_pixbuf_save
\* fails (a failed save leaves no file behind).
save_pixbuf_to_temp(name, saveOk) ==
    IF saveOk THEN "/tmp/pchat-tray-" \o name \o "-" \o Pid \o ".png" ELSE NULL

Saved(path) == IF path = NULL THEN "gdk_pixbuf_save=FALSE" ELSE "gdk_pixbuf_save"

LastSlash(path) ==
    CHOOSE i \in 1..Len(path) :
        /\ SubSeq(path, i, i) = "/"
        /\ \A j \in (i + 1)..Len(path) : SubSeq(path, j, j) # "/"
g_path_get_dirname(path) == SubSeq(path, 1, LastSlash(path) - 1)
g_path_get_basename(path) == SubSeq(path, LastSlash(path) + 1, Len(path))
\* g_strndup(basename, strlen(basename) - 4): drops ".png"
name_without_ext(path) ==
    LET basename == g_path_get_basename(path)
    IN SubSeq(basename, 1, Len(basename) - 4)

\* The host's menu-building delegate: appends k items to the container it is given.
MenuDelegate(items, build, k) == items \cup {<<build, i>> : i \in 1..k}

LinStep(h2, refs2, l2, e2, effect) ==
    /\ hstate' = h2
    /\ pixRef' = refs2
    /\ lin' = l2
    /\ linEnv' = e2
    /\ eff' = effect
    /\ UNCHANGED <<nextId, win, winEnv, mac, macEnv>>

\* on_activate_clicked: a "activate" signal handler for a menu item.  No
\* g_signal_connect in tray-linux.c names it, so no event of the model runs it.
on_activate_clicked ==
    LinStep(hstate, pixRef, lin, linEnv,
            Effect(<< >>,
                   Opt(hstate = "live" /\ lin.activate_callback[1] # NULL,
                       << <<"activate", lin.activate_callback[1], lin.activate_callback[2]>> >>),
                   "void"))

\* Fault injection: tray_linux_new that sets the status to active only when
\* an icon was applied.
new_active_with_icon_only(icon, tooltip, saveOk) ==
    LET path == save_pixbuf_to_temp("pchat-normal", saveOk)
        b1 == [LinBackend0 EXCEPT !.indicator = 1, !.menu = 1]
        b2 == IF icon # NULL
              THEN [b1 EXCEPT !.current_icon = icon, !.icon_name = "pchat-normal",
                              !.temp_icon_path = path]
              ELSE b1
        e1 == [linEnv EXCEPT !.indicatorAlive = TRUE, !.iconName = "pchat"]
        applied == icon # NULL /\ path # NULL
        e2 == IF applied
              THEN [e1 EXCEPT !.files = @ \cup {path},
                              !.themePath = g_path_get_dirname(path),
                              !.iconName = name_without_ext(path),
                              !.iconDesc = tooltip,
                              !.status = "ACTIVE"]
              ELSE e1
        e3 == [e2 EXCEPT !.menuAlive = TRUE, !.menuSet = TRUE]
    IN LinStep("live",
               IF icon # NULL THEN Ref(pixRef, icon) ELSE pixRef,
               b2, e3,
               Effect(<<"app_indicator_new">>
                        \o Opt(icon # NULL, <<"g_object_ref", Saved(path)>>)
                        \o Opt(applied,
                               <<"app_indicator_set_icon_theme_path", "app_indicator_set_icon_full",
                                 "app_indicator_set_status">>)
                        \o <<"gtk_menu_new", "app_indicator_set_menu">>,
                      << >>, H))

\* tray_linux_new
tray_linux_new(icon, tooltip, saveOk) ==
    LET path == save_pixbuf_to_temp("pchat-normal", saveOk)
        b1 == [LinBackend0 EXCEPT !.indicator = 1, !.menu = 1]
        b2 == IF icon # NULL
              THEN [b1 EXCEPT !.current_icon = icon, !.icon_name = "pchat-normal",
                              !.temp_icon_path = path]
              ELSE b1
        e1 == [linEnv EXCEPT !.indicatorAlive = TRUE, !.iconName = "pchat"]
        e2 == IF icon # NULL /\ path # NULL
              THEN [e1 EXCEPT !.files = @ \cup {path},
                              !.themePath = g_path_get_dirname(path),
                              !.iconName = name_without_ext(path),
                              !.iconDesc = tooltip]
              ELSE e1
        e3 == [e2 EXCEPT !.menuAlive = TRUE, !.menuSet = TRUE, !.status = "ACTIVE"]
    IN LinStep("live",
               IF icon # NULL THEN Ref(pixRef, icon) ELSE pixRef,
               b2, e3,
               Effect(<<"app_indicator_new">>
                        \o Opt(icon # NULL, <<"g_object_ref", Saved(path)>>)
                        \o Opt(icon # NULL /\ path # NULL,
                               <<"app_indicator_set_icon_theme_path", "app_indicator_set_icon_full">>)
                        \o <<"gtk_menu_new", "app_indicator_set_menu", "app_indicator_set_status">>,
                      << >>, H))

\* tray_linux_set_icon
tray_linux_set_icon(backend, icon, saveOk) ==
    IF backend = NULL \/ icon = NULL
    THEN NoOp("void")
    ELSE LET now == linEnv.clock + 1
             name == "pchat-" \o ToString(now)
             path == save_pixbuf_to_temp(name, saveOk)
             e1 == [linEnv EXCEPT !.clock = now,
                                  !.files = (@ \ {lin.temp_icon_path})
                                            \cup (IF path # NULL THEN {path} ELSE {})]
             e2 == IF path # NULL
                   THEN [e1 EXCEPT !.themePath = g_path_get_dirname(path),
                                   !.iconName = name_without_ext(path),
                                   !.iconDesc = "PChat"]
                   ELSE e1
         IN LinStep(hstate,
                    Ref(UnrefOpt(pixRef, lin.current_icon), icon),
                    [lin EXCEPT !.current_icon = icon, !.icon_name = name,
                                !.temp_icon_path = path],
                    e2,
                    Effect(Opt(lin.current_icon # NULL, <<"g_object_unref">>)
                             \o Opt(lin.temp_icon_path # NULL, <<"unlink">>)
                             \o <<"g_object_ref", Saved(path)>>
                             \o Opt(path # NULL,
                                    <<"app_indicator_set_icon_theme_path", "app_indicator_set_icon_full">>),
                           << >>, "void"))

\* Fault injection: tray_linux_set_tooltip without the test of its text argument.
set_tooltip_unchecked(backend, tooltip) ==
    IF backend = NULL
    THEN NoOp("void")
    ELSE LinStep(hstate, pixRef, lin, [linEnv EXCEPT !.title = tooltip],
                 Effect(<<"app_indicator_set_title">>, << >>, "void"))

\* tray_linux_set_tooltip
tray_linux_set_tooltip(backend, tooltip) ==
    IF backend = NULL \/ tooltip = NULL
    THEN NoOp("void")
    ELSE LinStep(hstate, pixRef, lin, [linEnv EXCEPT !.title = tooltip],
                 Effect(<<"app_indicator_set_title">>, << >>, "void"))

\* tray_linux_set_visible
\* Fault injection: tray_linux_set_visible that drops the indicator to hide it.
set_visible_by_unref(backend, visible) ==
    IF backend = NULL
    THEN NoOp("void")
    ELSE IF visible
    THEN LinStep(hstate, pixRef, lin, [linEnv EXCEPT !.status = "ACTIVE"],
                 Effect(<<"app_indicator_set_status">>, << >>, "void"))
    ELSE LinStep(hstate, pixRef, lin,
                 [linEnv EXCEPT !.status = "PASSIVE", !.indicatorAlive = FALSE],
                 Effect(<<"g_object_unref">>, << >>, "void"))

tray_linux_set_visible(backend, visible) ==
    IF backend = NULL
    THEN NoOp("void")
    ELSE LinStep(hstate, pixRef, lin,
                 [linEnv EXCEPT !.status = IF visible THEN "ACTIVE" ELSE "PASSIVE"],
                 Effect(<<"app_indicator_set_status">>, << >>, "void"))

\* tray_linux_is_embedded
tray_linux_is_embedded(backend) == IF backend = NULL THEN FALSE ELSE linEnv.status = "ACTIVE"

\* Fault injection: tray_linux_set_activate_callback that calls the callback
\* it was given.
set_activate_callback_calling(backend, cb) ==
    IF backend = NULL
    THEN NoOp("void")
    ELSE LinStep(hstate, pixRef, [lin EXCEPT !.activate_callback = cb], linEnv,
                 Effect(<< >>, Opt(cb[1] # NULL, << <<"activate", cb[1], cb[2]>> >>), "void"))

tray_linux_set_activate_callback(backend, cb) ==
    IF backend = NULL
    THEN NoOp("void")
    ELSE LinStep(hstate, pixRef, [lin EXCEPT !.activate_callback = cb], linEnv,
                 Effect(<< >>, << >>, "void"))

\* tray_linux_set_menu_callback: builds the initial menu through the callback
\* it was just given; k is the number of items the delegate adds.
tray_linux_set_menu_callback(backend, cb, k) ==
    IF backend = NULL
    THEN NoOp("void")
    ELSE LET build == cb[1] # NULL /\ lin.menu # 0
             b == linEnv.builds + 1
         IN LinStep(hstate, pixRef, [lin EXCEPT !.menu_callback = cb],
                    IF build
                    THEN [linEnv EXCEPT !.builds = b, !.items = MenuDelegate(@, b, k)]
                    ELSE linEnv,
                    Effect(<< >>,
                           Opt(build, << <<"menu", cb[1], "menu", 3, 0, cb[2]>> >>),
                           "void"))

\* Fault injection: tray_linux_set_embedded_callback that calls the callback
\* it was given, as the status-bar-item backend does.
set_embedded_callback_calling(backend, cb) ==
    IF backend = NULL
    THEN NoOp("void")
    ELSE LinStep(hstate, pixRef, [lin EXCEPT !.embedded_callback = cb], linEnv,
                 Effect(<< >>, Opt(cb[1] # NULL, << <<"embedded", cb[1], cb[2]>> >>), "void"))

tray_linux_set_embedded_callback(backend, cb) ==
    IF backend = NULL
    THEN NoOp("void")
    ELSE LinStep(hstate, pixRef, [lin EXCEPT !.embedded_callback = cb], linEnv,
                 Effect(<< >>, << >>, "void"))

\* Fault injection: tray_linux_rebuild_menu without the loop that destroys the children.
rebuild_without_clear(backend, k) ==
    IF backend = NULL \/ lin.menu = 0 \/ lin.menu_callback[1] = NULL
    THEN NoOp("void")
    ELSE LET b == linEnv.builds + 1
         IN LinStep(hstate, pixRef, lin,
                    [linEnv EXCEPT !.builds = b, !.items = MenuDelegate(@, b, k)],
                    Effect(<< >>,
                           << <<"menu", lin.menu_callback[1], "menu", 3, 0,
                                lin.menu_callback[2]>> >>,
                           "void"))

\* tray_linux_rebuild_menu: gtk_widget_destroy on a child removes it from the menu.
tray_linux_rebuild_menu(backend, k) ==
    IF backend = NULL \/ lin.menu = 0 \/ lin.menu_callback[1] = NULL
    THEN NoOp("void")
    ELSE LET b == linEnv.builds + 1
         IN LinStep(hstate, pixRef, lin,
                    [linEnv EXCEPT !.builds = b, !.items = MenuDelegate({}, b, k)],
                    Effect(<<"gtk_container_get_children">>
                             \o [i \in 1..Cardinality(linEnv.items) |-> "gtk_widget_destroy"],
                           << <<"menu", lin.menu_callback[1], "menu", 3, 0,
                                lin.menu_callback[2]>> >>,
                           "void"))

\* Fault injection: tray_linux_destroy without the unlink of the temp icon file.
destroy_without_unlink(backend) ==
    IF backend = NULL
    THEN NoOp("void")
    ELSE LinStep("freed",
                 UnrefOpt(pixRef, lin.current_icon),
                 LinBackend0,
                 [linEnv EXCEPT !.menuAlive = FALSE, !.items = {}, !.indicatorAlive = FALSE,
                                !.status = "PASSIVE", !.menuSet = FALSE],
                 Effect(Opt(lin.current_icon # NULL, <<"g_object_unref">>)
                          \o <<"gtk_widget_destroy", "g_object_unref", "g_free">>,
                        << >>, "void"))

\* tray_linux_destroy: destroying the menu destroys its children; the backend
\* holds the only reference on the indicator.
tray_linux_destroy(backend) ==
    IF backend = NULL
    THEN NoOp("void")
    ELSE LET e1 == IF lin.temp_icon_path # NULL
                   THEN [linEnv EXCEPT !.files = @ \ {lin.temp_icon_path}]
                   ELSE linEnv
             e2 == IF lin.menu # 0
                   THEN [e1 EXCEPT !.menuAlive = FALSE, !.items = {}]
                   ELSE e1
             e3 == IF lin.indicator # 0
                   THEN [e2 EXCEPT !.indicatorAlive = FALSE, !.status = "PASSIVE",
                                   !.menuSet = FALSE]
                   ELSE e2
         IN LinStep("freed",
                    UnrefOpt(pixRef, lin.current_icon),
                    LinBackend0, e3,
                    Effect(Opt(lin.temp_icon_path # NULL, <<"unlink">>)
                             \o Opt(lin.current_icon # NULL, <<"g_object_unref">>)
                             \o Opt(lin.menu # 0, <<"gtk_widget_destroy">>)
                             \o Opt(lin.indicator # 0, <<"g_object_unref">>)
                             \o <<"g_free">>,
                           << >>, "void"))

(***************************************************************************)
(* Status-bar-item backend (tray-macos.m)                                  *)
(***************************************************************************)
MaxRetries == 10

MacBackend0 ==
    [statusItem |-> 0, currentImage |-> 0, delegate |-> 0, currentIcon |-> NULL,
     tooltip |-> NULL, visible |-> FALSE,
     activateCallback |-> NoCb, menuCallback |-> NoCb, embeddedCallback |-> NoCb]

\* DeferredTrayData, without its backend pointer (there is one handle).
NoData == [icon |-> NULL, tooltip |-> NULL, attempts |-> 0]

Button0 == [target |-> 0, image |-> 0, title |-> "", toolTip |-> NULL]

MacEnv0 ==
    [running |-> FALSE,       \* [NSApp isRunning]
     poll |-> "none",         \* the g_timeout source: "none" | "scheduled" | "removed"
     data |-> NoData,         \* the DeferredTrayData the source carries
     items |-> {},            \* status items in the system status bar
     itemVisible |-> FALSE,   \* [statusItem isVisible]
     hasButton |-> FALSE,     \* [statusItem button] is not nil
     button |-> Button0,      \* the NSStatusBarButton
     delegateAlive |-> FALSE, \* a PChatTrayDelegate exists
     delegate |-> [activateCallback |-> NoCb, menuCallback |-> NoCb],
     images |-> {},           \* NSImages created and not released by the backend
     strs |-> 0,              \* g_strdup'ed tooltip copies not freed
     pollCalls |-> 0,         \* invocations of create_status_item_deferred
     sawRunning |-> FALSE,    \* some invocation found [NSApp isRunning] true
     uaf |-> FALSE,           \* the poll wrote through a freed TrayBackend
     crashed |-> FALSE]       \* that write faulted

\* pixbuf_to_nsimage: a fresh NSImage, or nil when the bitmap rep cannot be allocated.
pixbuf_to_nsimage(pixbuf, id, convOk) == IF pixbuf # NULL /\ convOk THEN id ELSE 0

MacStep(h2, id2, refs2, m2, e2, effect) ==
    /\ hstate' = h2
    /\ nextId' = id2
    /\ pixRef' = refs2
    /\ mac' = m2
    /\ macEnv' = e2
    /\ eff' = effect
    /\ UNCHANGED <<win, winEnv, lin, linEnv>>

\* Fault injection: tray_macos_new that marks the handle visible at once.
new_visible_at_once(icon, tooltip) ==
    MacStep("live", nextId,
            IF icon # NULL THEN Ref(pixRef, icon) ELSE pixRef,
            [MacBackend0 EXCEPT !.visible = TRUE],
            [macEnv EXCEPT !.poll = "scheduled",
                           !.data = [icon |-> icon, tooltip |-> tooltip, attempts |-> 0],
                           !.strs = IF tooltip # NULL THEN @ + 1 ELSE @],
            Effect(Opt(icon # NULL, <<"g_object_ref">>) \o <<"g_timeout_add">>, << >>, H))

\* Fault injection: tray_macos_new that creates the status item itself when
\* the run loop is already running.
new_synchronous_when_running(icon, tooltip) ==
    IF macEnv.running
    THEN MacStep("live", nextId + 1, pixRef,
                 [MacBackend0 EXCEPT !.statusItem = nextId, !.visible = TRUE],
                 [macEnv EXCEPT !.poll = "removed",
                                !.items = @ \cup {nextId},
                                !.itemVisible = TRUE],
                 Effect(<<"statusItemWithLength", "setVisible">>, << >>, H))
    ELSE MacStep("live", nextId,
                 IF icon # NULL THEN Ref(pixRef, icon) ELSE pixRef,
                 MacBackend0,
                 [macEnv EXCEPT !.poll = "scheduled",
                                !.data = [icon |-> icon, tooltip |-> tooltip, attempts |-> 0],
                                !.strs = IF tooltip # NULL THEN @ + 1 ELSE @],
                 Effect(Opt(icon # NULL, <<"g_object_ref">>) \o <<"g_timeout_add">>, << >>, H))

\* tray_macos_new: allocates the handle and schedules the deferred creation.
tray_macos_new(icon, tooltip) ==
    MacStep("live", nextId,
            IF icon # NULL THEN Ref(pixRef, icon) ELSE pixRef,
            MacBackend0,
            [macEnv EXCEPT !.poll = "scheduled",
                           !.data = [icon |-> icon, tooltip |-> tooltip, attempts |-> 0],
                           !.strs = IF tooltip # NULL THEN @ + 1 ELSE @],
            Effect(Opt(icon # NULL, <<"g_object_ref">>) \o <<"g_timeout_add">>, << >>, H))

\* The part of create_status_item_deferred after the wait: allocation of the
\* status item and everything that follows.  b is the TrayBackend it works on.
PollCreate(b, allocOk, hasButton, convOk) ==
    LET d == macEnv.data
        item == IF allocOk THEN nextId ELSE 0
        img == pixbuf_to_nsimage(d.icon, nextId + 1, convOk)
        setIcon == hasButton /\ d.icon # NULL
        setTip == hasButton /\ d.tooltip # NULL
        e0 == [macEnv EXCEPT !.pollCalls = @ + 1,
                             !.sawRunning = @ \/ macEnv.running,
                             !.poll = "removed",
                             !.data = NoData]
    IN IF item = 0
       THEN \* g_free(data); return G_SOURCE_REMOVE
            [b |-> [b EXCEPT !.statusItem = 0], env |-> e0, refs |-> pixRef, id |-> nextId,
             native |-> <<"statusItemWithLength=NULL", "g_free">>]
       ELSE [b |-> [b EXCEPT !.statusItem = item,
                             !.delegate = 1,
                             !.currentIcon = IF setIcon THEN d.icon ELSE @,
                             !.currentImage = IF setIcon THEN img ELSE @,
                             !.tooltip = IF setTip THEN d.tooltip ELSE @,
                             !.visible = TRUE],
             env |-> [e0 EXCEPT !.items = @ \cup {item},
                                !.itemVisible = TRUE,
                                !.hasButton = hasButton,
                                !.delegateAlive = TRUE,
                                !.delegate = [activateCallback |-> NoCb, menuCallback |-> NoCb],
                                !.button = IF hasButton
                                           THEN [target |-> 1,
                                                 image |-> IF setIcon /\ img # 0 THEN img ELSE 0,
                                                 title |-> IF setIcon /\ img # 0 THEN "" ELSE "P",
                                                 toolTip |-> IF setTip THEN d.tooltip ELSE NULL]
                                           ELSE Button0,
                                !.images = IF setIcon /\ img # 0 THEN @ \cup {img} ELSE @,
                                \* g_strdup for the handle, then g_free(data->tooltip)
                                !.strs = @ + (IF setTip THEN 1 ELSE 0)
                                           - (IF d.tooltip # NULL THEN 1 ELSE 0)],
             \* g_object_ref for the handle, then g_object_unref(data->icon)
             refs |-> UnrefOpt(IF setIcon THEN Ref(pixRef, d.icon) ELSE pixRef, d.icon),
             id |-> nextId + 2,
             native |-> <<"statusItemWithLength", "setAutosaveName">>
                          \o Opt(setIcon, <<"g_object_ref", Converted("pixbuf_to_nsimage", img)>>)
                          \o Opt(setIcon /\ img # 0, <<"setImage">>)
                          \o Opt(setTip, <<"setToolTip">>)
                          \o <<"setVisible">>
                          \o Opt(d.icon # NULL, <<"g_object_unref">>)
                          \o <<"g_free">>]

\* Fault injection: create_status_item_deferred whose retry test admits one
\* retry more than the budget.
deferred_retry_once_more(allocOk, hasButton, convOk, crash) ==
    IF ~macEnv.running /\ macEnv.data.attempts <= MaxRetries
    THEN MacStep(hstate, nextId, pixRef, mac,
                 [macEnv EXCEPT !.data.attempts = @ + 1, !.pollCalls = @ + 1],
                 Effect(<< >>, << >>, "G_SOURCE_CONTINUE"))
    ELSE LET r == PollCreate(mac, allocOk, hasButton, convOk)
         IN IF hstate = "live"
            THEN MacStep(hstate, r.id, r.refs, r.b, r.env,
                         Effect(r.native, << >>, "G_SOURCE_REMOVE"))
            ELSE IF crash
            THEN MacStep(hstate, nextId, pixRef, mac,
                         [macEnv EXCEPT !.pollCalls = @ + 1,
                                        !.sawRunning = @ \/ macEnv.running,
                                        !.uaf = TRUE, !.crashed = TRUE,
                                        !.items = IF allocOk THEN @ \cup {nextId} ELSE @],
                         Effect(<<"statusItemWithLength">>, << >>, "SIGSEGV"))
            ELSE MacStep(hstate, r.id, r.refs, mac,
                         [r.env EXCEPT !.uaf = TRUE],
                         Effect(r.native, << >>, "G_SOURCE_REMOVE"))

\* create_status_item_deferred, one invocation by the GLib main loop.  After
\* tray_macos_destroy the record still points at the freed TrayBackend: the
\* writes through it either fault (crash) or land in freed memory.
create_status_item_deferred(allocOk, hasButton, convOk, crash) ==
    IF ~macEnv.running /\ macEnv.data.attempts < MaxRetries
    THEN MacStep(hstate, nextId, pixRef, mac,
                 [macEnv EXCEPT !.data.attempts = @ + 1, !.pollCalls = @ + 1],
                 Effect(<< >>, << >>, "G_SOURCE_CONTINUE"))
    ELSE LET r == PollCreate(mac, allocOk, hasButton, convOk)
         IN IF hstate = "live"
            THEN MacStep(hstate, r.id, r.refs, r.b, r.env,
                         Effect(r.native, << >>, "G_SOURCE_REMOVE"))
            ELSE IF crash
            THEN MacStep(hstate, nextId, pixRef, mac,
                         [macEnv EXCEPT !.pollCalls = @ + 1,
                                        !.sawRunning = @ \/ macEnv.running,
                                        !.uaf = TRUE, !.crashed = TRUE,
                                        !.items = IF allocOk THEN @ \cup {nextId} ELSE @],
                         Effect(<<"statusItemWithLength">>, << >>, "SIGSEGV"))
            ELSE MacStep(hstate, r.id, r.refs, mac,
                         [r.env EXCEPT !.uaf = TRUE],
                         Effect(r.native, << >>, "G_SOURCE_REMOVE"))

\* tray_macos_set_icon
tray_macos_set_icon(backend, icon, convOk) ==
    IF backend = NULL \/ icon = NULL
    THEN NoOp("void")
    ELSE LET img == pixbuf_to_nsimage(icon, nextId, convOk)
             button == mac.statusItem # 0 /\ macEnv.hasButton
         IN MacStep(hstate,
                    IF img # 0 THEN nextId + 1 ELSE nextId,
                    Ref(UnrefOpt(pixRef, mac.currentIcon), icon),
                    [mac EXCEPT !.currentIcon = icon, !.currentImage = img],
                    [macEnv EXCEPT !.images = (@ \ {mac.currentImage})
                                              \cup (IF img # 0 THEN {img} ELSE {}),
                                   !.button.image = IF img # 0 /\ button THEN img ELSE @],
                    Effect(Opt(mac.currentIcon # NULL, <<"g_object_unref">>)
                             \o Opt(mac.currentImage # 0, <<"release">>)
                             \o <<"g_object_ref", Converted("pixbuf_to_nsimage", img)>>
                             \o Opt(img # 0 /\ button, <<"setImage">>),
                           << >>, "void"))

\* tray_macos_set_tooltip
tray_macos_set_tooltip(backend, tooltip) ==
    IF backend = NULL \/ tooltip = NULL
    THEN NoOp("void")
    ELSE LET button == mac.statusItem # 0 /\ macEnv.hasButton
         IN MacStep(hstate, nextId, pixRef,
                    [mac EXCEPT !.tooltip = tooltip],
                    [macEnv EXCEPT !.strs = @ + 1 - (IF mac.tooltip # NULL THEN 1 ELSE 0),
                                   !.button.toolTip = IF button THEN tooltip ELSE @],
                    Effect(Opt(mac.tooltip # NULL, <<"g_free">>)
                             \o <<"g_strdup">>
                             \o Opt(button, <<"setToolTip">>),
                           << >>, "void"))

\* tray_macos_set_visible: a message to a nil statusItem does nothing.
tray_macos_set_visible(backend, visible) ==
    IF backend = NULL
    THEN NoOp("void")
    ELSE MacStep(hstate, nextId, pixRef,
                 [mac EXCEPT !.visible = visible],
                 [macEnv EXCEPT !.itemVisible = IF mac.statusItem # 0 THEN visible ELSE @],
                 Effect(Opt(mac.statusItem # 0, <<"setVisible">>), << >>, "void"))

\* Fault injection: tray_macos_is_embedded that takes every handle for embedded.
is_embedded_always(backend) == backend # NULL

\* tray_macos_is_embedded
tray_macos_is_embedded(backend) == IF backend = NULL THEN FALSE ELSE mac.visible

\* tray_macos_set_activate_callback: a message to a nil delegate does nothing.
tray_macos_set_activate_callback(backend, cb) ==
    IF backend = NULL
    THEN NoOp("void")
    ELSE MacStep(hstate, nextId, pixRef,
                 [mac EXCEPT !.activateCallback = cb],
                 [macEnv EXCEPT !.delegate.activateCallback = IF mac.delegate # 0 THEN cb ELSE @],
                 Effect(<< >>, << >>, "void"))

tray_macos_set_menu_callback(backend, cb) ==
    IF backend = NULL
    THEN NoOp("void")
    ELSE MacStep(hstate, nextId, pixRef,
                 [mac EXCEPT !.menuCallback = cb],
                 [macEnv EXCEPT !.delegate.menuCallback = IF mac.delegate # 0 THEN cb ELSE @],
                 Effect(<< >>, << >>, "void"))

\* tray_macos_set_embedded_callback: calls the callback it was just given.
tray_macos_set_embedded_callback(backend, cb) ==
    IF backend = NULL
    THEN NoOp("void")
    ELSE MacStep(hstate, nextId, pixRef,
                 [mac EXCEPT !.embeddedCallback = cb],
                 macEnv,
                 Effect(<< >>, Opt(cb[1] # NULL, << <<"embedded", cb[1], cb[2]>> >>), "void"))

\* tray_macos_destroy: releases what the handle points at; the g_timeout
\* source and its DeferredTrayData are not touched.
tray_macos_destroy(backend) ==
    IF backend = NULL
    THEN NoOp("void")
    ELSE MacStep("freed", nextId,
                 UnrefOpt(pixRef, mac.currentIcon),
                 MacBackend0,
                 [macEnv EXCEPT !.items = @ \ {mac.statusItem},
                                !.itemVisible = IF mac.statusItem # 0 THEN FALSE ELSE @,
                                !.hasButton = IF mac.statusItem # 0 THEN FALSE ELSE @,
                                !.button = IF mac.statusItem # 0 THEN Button0 ELSE @,
                                !.delegateAlive = IF mac.delegate # 0 THEN FALSE ELSE @,
                                !.images = @ \ {mac.currentImage},
                                !.strs = @ - (IF mac.tooltip # NULL THEN 1 ELSE 0)],
                 Effect(Opt(mac.statusItem # 0, <<"removeStatusItem", "release">>)
                          \o Opt(mac.delegate # 0, <<"release">>)
                          \o Opt(mac.currentImage # 0, <<"release">>)
                          \o Opt(mac.currentIcon # NULL, <<"g_object_unref">>)
                          \o Opt(mac.tooltip # NULL, <<"g_free">>)
                          \o <<"g_free">>,
                        << >>, "void"))

\* -[PChatTrayDelegate onRightClick:]
onRightClick ==
    LET cb == macEnv.delegate.menuCallback
    IN Opt(cb[1] # NULL, << <<"menu", cb[1], NULL, 3, GDK_CURRENT_TIME, cb[2]>> >>)

\* -[PChatTrayDelegate onStatusItemClicked:]; event is the current NSEvent:
\* "left", "right" or "ctrl-left" (a left mouse-up with the control modifier).
onStatusItemClicked(event) ==
    LET cb == macEnv.delegate.activateCallback
    IN MacStep(hstate, nextId, pixRef, mac, macEnv,
               Effect(<< >>,
                      IF event = "right" \/ event = "ctrl-left"
                      THEN onRightClick
                      ELSE Opt(cb[1] # NULL, << <<"activate", cb[1], cb[2]>> >>),
                      "void"))

(***************************************************************************)
(* Dispatcher (tray-backend.c)                                             *)
(***************************************************************************)
\* The #if chain defines the backend_* macros on Linux and Windows only; the
\* __APPLE__ branch is a placeholder that defines none of them.
HasBackendMacros == platform \in {"linux", "windows"}

backend_new(icon, tooltip, ok1, ok2) ==
    IF platform = "linux"
    THEN tray_linux_new(icon, tooltip, ok1)
    ELSE tray_windows_new(icon, tooltip, ok1, ok2)

backend_set_icon(backend, icon, ok) ==
    IF platform = "linux"
    THEN tray_linux_set_icon(backend, icon, ok)
    ELSE tray_windows_set_icon(backend, icon, ok)

backend_set_tooltip(backend, tooltip) ==
    IF platform = "linux"
    THEN tray_linux_set_tooltip(backend, tooltip)
    ELSE tray_windows_set_tooltip(backend, tooltip)

backend_set_visible(backend, visible, ok) ==
    IF platform = "linux"
    THEN tray_linux_set_visible(backend, visible)
    ELSE tray_windows_set_visible(backend, visible, ok)

backend_is_embedded(backend) ==
    IF platform = "linux"
    THEN tray_linux_is_embedded(backend)
    ELSE tray_windows_is_embedded(backend)

backend_set_activate_callback(backend, cb) ==
    IF platform = "linux"
    THEN tray_linux_set_activate_callback(backend, cb)
    ELSE tray_windows_set_activate_callback(backend, cb)

backend_set_menu_callback(backend, cb, k) ==
    IF platform = "linux"
    THEN tray_linux_set_menu_callback(backend, cb, k)
    ELSE tray_windows_set_menu_callback(backend, cb)

backend_set_embedded_callback(backend, cb) ==
    IF platform = "linux"
    THEN tray_linux_set_embedded_callback(backend, cb)
    ELSE tray_windows_set_embedded_callback(backend, cb)

backend_destroy(backend) ==
    IF platform = "linux"
    THEN tray_linux_destroy(backend)
    ELSE tray_windows_destroy(backend)

tray_backend_new(icon, tooltip, ok1, ok2) ==
    IF HasBackendMacros THEN backend_new(icon, tooltip, ok1, ok2) ELSE NoOp(NULL)

tray_backend_set_icon(backend, icon, ok) ==
    IF HasBackendMacros /\ backend # NULL THEN backend_set_icon(backend, icon, ok) ELSE NoOp("void")

tray_backend_set_tooltip(backend, tooltip) ==
    IF HasBackendMacros /\ backend # NULL THEN backend_set_tooltip(backend, tooltip) ELSE NoOp("void")

tray_backend_set_visible(backend, visible, ok) ==
    IF HasBackendMacros /\ backend # NULL THEN backend_set_visible(backend, visible, ok) ELSE NoOp("void")

tray_backend_is_embedded(backend) ==
    IF HasBackendMacros /\ backend # NULL THEN backend_is_embedded(backend) ELSE FALSE

tray_backend_set_activate_callback(backend, cb) ==
    IF HasBackendMacros /\ backend # NULL THEN backend_set_activate_callback(backend, cb) ELSE NoOp("void")

tray_backend_set_menu_callback(backend, cb, k) ==
    IF HasBackendMacros /\ backend # NULL THEN backend_set_menu_callback(backend, cb, k) ELSE NoOp("void")

tray_backend_set_embedded_callback(backend, cb) ==
    IF HasBackendMacros /\ backend # NULL THEN backend_set_embedded_callback(backend, cb) ELSE NoOp("void")

tray_backend_destroy(backend) ==
    IF HasBackendMacros /\ backend # NULL THEN backend_destroy(backend) ELSE NoOp("void")

\* tray_backend_rebuild_menu: forwards on Linux without testing the handle;
\* the other branches are empty.
tray_backend_rebuild_menu(backend, k) ==
    IF platform = "linux" THEN tray_linux_rebuild_menu(backend, k) ELSE NoOp("void")

\* tray_backend_get_type
tray_backend_get_type ==
    CASE platform = "linux" -> "AppIndicator"
      [] platform = "windows" -> "Shell_NotifyIcon"
      [] platform = "macos" -> "macOS"

(***************************************************************************)
(* The update checker (update-checker.c)                                   *)
(***************************************************************************)
\* Appcast URLs the host configures: one soup_message_new can parse and one
\* it cannot.
DEFAULT_APPCAST_URL == "https://pchat.github.io/appcast.xml"
UrlArgs == {NULL, DEFAULT_APPCAST_URL, "not a uri"}
UriParses(url) == url # "not a uri"

\* static struct update_state
UpdateState0 ==
    [appcast_url |-> NULL, automatic_checks |-> FALSE,
     check_in_progress |-> FALSE, session |-> 0]

\* A version string is a sequence of characters: components joined by ".".
VersionTokens == {<<"0">>, <<"1">>, <<"1", "0">>, <<"x">>}
RECURSIVE VersionsOf(_)
VersionsOf(k) ==
    IF k = 1 THEN VersionTokens
    ELSE {v \o <<".">> \o t : v \in VersionsOf(k - 1), t \in VersionTokens}
Versions == UNION {VersionsOf(k) : k \in 1..MaxComponents}

\* PACKAGE_VERSION of the builds the request flow is explored with.
PackageVersion == <<"1", ".", "0">>
\* The versions the explored appcasts carry: older, equal, newer.
AppcastVersions == {<<"0", ".", "1", "0">>, <<"1", ".", "0">>, <<"1", ".", "1", "0">>}

\* UpdateInfo *, by its version; present is FALSE for a NULL pointer.
NoInfo == [present |-> FALSE, version |-> << >>]
Info(version) == [present |-> TRUE, version |-> version]

\* libsoup, GTK and the state of the dialog code.
\*   sessions: SoupSession objects alive; showUi: those whose "show-ui"
\*   datum is TRUE; inflight: the sessions with a request sent and not yet
\*   completed; sent: number of requests started; nops: host calls made;
\*   fn, dialog: the function that ran in the step just taken and the dialog
\*   it ran; result: how the completed request ended; info,
\*   package_version, show_no_update: the arguments of show_update_dialog;
\*   crashed: the process died.
UpdEnv0 ==
    [sessions |-> {}, showUi |-> {}, inflight |-> {}, nextSession |-> 1,
     sent |-> 0, nops |-> 0, fn |-> "none", dialog |-> "none",
     result |-> "none", info |-> NoInfo, package_version |-> PackageVersion,
     show_no_update |-> FALSE, crashed |-> FALSE]

IsDigit(c) == c \in {"0", "1", "2", "3", "4", "5", "6", "7", "8", "9"}
DigitVal(c) ==
    CASE c = "0" -> 0 [] c = "1" -> 1 [] c = "2" -> 2 [] c = "3" -> 3 [] c = "4" -> 4
      [] c = "5" -> 5 [] c = "6" -> 6 [] c = "7" -> 7 [] c = "8" -> 8 [] c = "9" -> 9

RECURSIVE SkipSpace(_, _)
SkipSpace(s, i) == IF i <= Len(s) /\ s[i] = " " THEN SkipSpace(s, i + 1) ELSE i

RECURSIVE ScanDigits(_, _, _)
ScanDigits(s, i, acc) ==
    IF i <= Len(s) /\ IsDigit(s[i])
    THEN ScanDigits(s, i + 1, 10 * acc + DigitVal(s[i]))
    ELSE [val |-> acc, next |-> i]

\* The %d directive of sscanf at position i: white space, an optional sign,
\* then at least one digit.  The versions explored have at most two digits
\* per component, so the value fits an int.
ScanInt(s, i) ==
    LET j == SkipSpace(s, i)
        signed == j <= Len(s) /\ s[j] \in {"-", "+"}
        k == IF signed THEN j + 1 ELSE j
        d == ScanDigits(s, k, 0)
    IN IF k <= Len(s) /\ IsDigit(s[k])
       THEN [ok |-> TRUE, val |-> IF signed /\ s[j] = "-" THEN 0 - d.val ELSE d.val,
             next |-> d.next]
       ELSE [ok |-> FALSE, val |-> 0, next |-> k]

\* sscanf(v, "%d.%d.%d", &major, &minor, &patch) on variables initialised
\* to 0: conversion stops at the first directive that does not match.
sscanf(v) ==
    LET a == ScanInt(v, 1)
        dot1 == a.ok /\ a.next <= Len(v) /\ v[a.next] = "."
        b == IF dot1 THEN ScanInt(v, a.next + 1) ELSE [ok |-> FALSE, val |-> 0, next |-> 0]
        dot2 == b.ok /\ b.next <= Len(v) /\ v[b.next] = "."
        c == IF dot2 THEN ScanInt(v, b.next + 1) ELSE [ok |-> FALSE, val |-> 0, next |-> 0]
    IN <<IF a.ok THEN a.val ELSE 0, IF b.ok THEN b.val ELSE 0, IF c.ok THEN c.val ELSE 0>>

\* Fault injection: compare_versions that compares the patch before the minor.
compare_patch_first(v1, v2) ==
    LET a == sscanf(v1)
        b == sscanf(v2)
    IN IF a[1] # b[1] THEN (IF a[1] > b[1] THEN 1 ELSE -1)
       ELSE IF a[3] # b[3] THEN (IF a[3] > b[3] THEN 1 ELSE -1)
       ELSE IF a[2] # b[2] THEN (IF a[2] > b[2] THEN 1 ELSE -1)
       ELSE 0

\* compare_versions
compare_versions(v1, v2) ==
    LET a == sscanf(v1)
        b == sscanf(v2)
    IN IF a[1] # b[1] THEN (IF a[1] > b[1] THEN 1 ELSE -1)
       ELSE IF a[2] # b[2] THEN (IF a[2] > b[2] THEN 1 ELSE -1)
       ELSE IF a[3] # b[3] THEN (IF a[3] > b[3] THEN 1 ELSE -1)
       ELSE 0

\* show_update_dialog: the dialog it runs, if any.  info is given by its
\* version.
show_update_dialog(info, package_version, show_no_update) ==
    IF ~info.present
    THEN (IF show_no_update THEN "up_to_date" ELSE "none")
    ELSE IF compare_versions(info.version, package_version) <= 0
    THEN (IF show_no_update THEN "up_to_date" ELSE "none")
    ELSE "update_available"

UpdStep(fn, st2, env2) ==
    /\ update_state' = st2
    /\ updEnv' = [env2 EXCEPT !.fn = fn]
    /\ UNCHANGED <<platform, hstate, nops, call, eff, hist, nextId, pixRef,
                   win, winEnv, lin, linEnv, mac, macEnv, bitmap>>

\* A call made by the host: the step's dialog and result start empty.
UpdCall == [updEnv EXCEPT !.nops = @ + 1, !.dialog = "none", !.result = "none"]

UpdHostMayCall == updEnv.nops < MaxUpdOps /\ ~updEnv.crashed

\* update_checker_init
update_checker_init ==
    /\ UpdHostMayCall
    /\ LET fresh == update_state.session = 0
           s == updEnv.nextSession
       IN UpdStep("update_checker_init",
                  [update_state EXCEPT
                      !.session = IF fresh THEN s ELSE @,
                      !.appcast_url = IF @ = NULL THEN DEFAULT_APPCAST_URL ELSE @],
                  IF fresh
                  THEN [UpdCall EXCEPT !.sessions = @ \cup {s}, !.nextSession = s + 1]
                  ELSE UpdCall)

\* update_checker_cleanup: g_object_unref drops the checker's reference; a
\* request in flight holds its own reference on the session until it completes.
update_checker_cleanup ==
    /\ UpdHostMayCall
    /\ LET s == update_state.session
       IN UpdStep("update_checker_cleanup",
                  [update_state EXCEPT !.session = 0, !.appcast_url = NULL],
                  IF s # 0 /\ s \notin updEnv.inflight
                  THEN [UpdCall EXCEPT !.sessions = @ \ {s}, !.showUi = @ \ {s}]
                  ELSE UpdCall)

\* update_checker_set_appcast_url: g_strdup(NULL) is NULL.
update_checker_set_appcast_url(url) ==
    /\ UpdHostMayCall
    /\ UpdStep("update_checker_set_appcast_url",
               [update_state EXCEPT !.appcast_url = url], UpdCall)

\* update_checker_set_automatic_checks
update_checker_set_automatic_checks(enabled) ==
    /\ UpdHostMayCall
    /\ UpdStep("update_checker_set_automatic_checks",
               [update_state EXCEPT !.automatic_checks = enabled], UpdCall)

\* do_update_check.  soup_message_new returns NULL for a URL it cannot parse;
\* soup_session_send_async called with a NULL session or a NULL message
\* breaks its precondition: it returns having started nothing and the
\* callback is never called, or (crash) the process dies.
do_update_check(fn, show_ui, crash) ==
    IF update_state.check_in_progress
    THEN UpdStep(fn, update_state, UpdCall)
    ELSE IF update_state.appcast_url = NULL
    THEN UpdStep(fn, update_state,
                 [UpdCall EXCEPT !.dialog = IF show_ui THEN "check_failed" ELSE "none"])
    ELSE LET s == update_state.session
             sendable == s # 0 /\ UriParses(update_state.appcast_url)
             st2 == [update_state EXCEPT !.check_in_progress = TRUE]
             e1 == IF s # 0
                   THEN [UpdCall EXCEPT !.showUi = IF show_ui THEN @ \cup {s} ELSE @ \ {s}]
                   ELSE UpdCall
         IN IF sendable
            THEN UpdStep(fn, st2, [e1 EXCEPT !.inflight = @ \cup {s}, !.sent = @ + 1])
            ELSE UpdStep(fn, st2, [e1 EXCEPT !.crashed = crash])

\* update_checker_check_with_ui
update_checker_check_with_ui(crash) ==
    /\ UpdHostMayCall
    /\ do_update_check("update_checker_check_with_ui", TRUE, crash)

\* update_checker_check_silently
update_checker_check_silently(crash) ==
    /\ UpdHostMayCall
    /\ do_update_check("update_checker_check_silently", FALSE, crash)

\* update_check_callback: the request sent on session s completes.  result is
\* "send_error" (soup_session_send_finish returned no stream), "read_error"
\* (g_input_stream_read_bytes returned no bytes), "parse_error" (parse_appcast
\* returned FALSE) or "parsed" with the appcast's version.
update_check_callback(s, result, version) ==
    /\ ~updEnv.crashed
    /\ s \in updEnv.inflight
    /\ LET show_ui == s \in updEnv.showUi
           info == IF result = "parsed" THEN Info(version) ELSE NoInfo
           dialog == IF result = "parsed"
                     THEN show_update_dialog(info, updEnv.package_version, show_ui)
                     ELSE IF show_ui THEN "check_failed" ELSE "none"
           released == s # update_state.session
       IN UpdStep("update_check_callback",
                  [update_state EXCEPT !.check_in_progress = FALSE],
                  [updEnv EXCEPT !.inflight = @ \ {s},
                                 !.sessions = IF released THEN @ \ {s} ELSE @,
                                 !.showUi = IF released THEN @ \ {s} ELSE @,
                                 !.result = result,
                                 !.info = info,
                                 !.show_no_update = show_ui,
                                 !.dialog = dialog])

(***************************************************************************)
(* The host application and the operating system                           *)
(***************************************************************************)
Call(fn, via, backend, arg) == [fn |-> fn, via |-> via, backend |-> backend, arg |-> arg]

\* icon, tooltip: what create was given; shown, hidden: set_visible(H, TRUE),
\* set_visible(H, FALSE) was called; iconSet: set_icon(H, image) was called.
Hist0 == [icon |-> NULL, tooltip |-> NULL, shown |-> FALSE, hidden |-> FALSE, iconSet |-> FALSE]

\* While the deferred-creation poll is retrying, the host makes its calls
\* before the poll's first MaxBusyPolls retries are over or once the retry
\* budget is used up; no host call reads the attempt counter.
HostMayCall ==
    macEnv.poll = "scheduled" =>
        \/ macEnv.data.attempts <= MaxBusyPolls
        \/ macEnv.data.attempts = MaxRetries

\* A host call: counted, recorded, and made only while the process runs.
HostCall(fn, via, backend, arg) ==
    /\ nops < (IF platform = "macos" THEN MaxMacOps ELSE MaxOps)
    /\ ~macEnv.crashed
    /\ HostMayCall
    /\ nops' = nops + 1
    /\ call' = Call(fn, via, backend, arg)
    /\ UNCHANGED <<platform, bitmap, update_state, updEnv>>

\* A query: returns a value and changes nothing.
Query(native, value) ==
    /\ eff' = Effect(native, << >>, BoolStr(value))
    /\ UNCHANGED <<hstate, nextId, pixRef, win, winEnv, lin, linEnv, mac, macEnv>>

HostNew(via, icon, tooltip, ok1, ok2) ==
    /\ hstate = "none"
    /\ HostCall("new", via, NULL, <<icon, tooltip>>)
    /\ IF via = "dispatcher"
       THEN tray_backend_new(icon, tooltip, ok1, ok2)
       ELSE CASE platform = "linux" -> tray_linux_new(icon, tooltip, ok1)
              [] platform = "windows" -> tray_windows_new(icon, tooltip, ok1, ok2)
              [] platform = "macos" -> tray_macos_new(icon, tooltip)
    /\ hist' = IF hstate' = "live"
               THEN [Hist0 EXCEPT !.icon = icon, !.tooltip = tooltip]
               ELSE hist

HostSetIcon(via, backend, icon, ok) ==
    /\ HostCall("set_icon", via, backend, <<icon>>)
    /\ IF via = "dispatcher"
       THEN tray_backend_set_icon(backend, icon, ok)
       ELSE CASE platform = "linux" -> tray_linux_set_icon(backend, icon, ok)
              [] platform = "windows" -> tray_windows_set_icon(backend, icon, ok)
              [] platform = "macos" -> tray_macos_set_icon(backend, icon, ok)
    /\ hist' = IF backend = H /\ icon # NULL THEN [hist EXCEPT !.iconSet = TRUE] ELSE hist

HostSetTooltip(via, backend, tooltip) ==
    /\ HostCall("set_tooltip", via, backend, <<tooltip>>)
    /\ IF via = "dispatcher"
       THEN tray_backend_set_tooltip(backend, tooltip)
       ELSE CASE platform = "linux" -> tray_linux_set_tooltip(backend, tooltip)
              [] platform = "windows" -> tray_windows_set_tooltip(backend, tooltip)
              [] platform = "macos" -> tray_macos_set_tooltip(backend, tooltip)
    /\ UNCHANGED hist

HostSetVisible(via, backend, visible, ok) ==
    /\ HostCall("set_visible", via, backend, <<BoolStr(visible)>>)
    /\ IF via = "dispatcher"
       THEN tray_backend_set_visible(backend, visible, ok)
       ELSE CASE platform = "linux" -> tray_linux_set_visible(backend, visible)
              [] platform = "windows" -> tray_windows_set_visible(backend, visible, ok)
              [] platform = "macos" -> tray_macos_set_visible(backend, visible)
    /\ hist' = IF backend # H THEN hist
               ELSE IF visible THEN [hist EXCEPT !.shown = TRUE]
               ELSE [hist EXCEPT !.hidden = TRUE]

HostIsEmbedded(via, backend) ==
    /\ HostCall("is_embedded", via, backend, << >>)
    /\ IF via = "dispatcher"
       THEN Query(Opt(platform = "linux" /\ backend # NULL, <<"app_indicator_get_status">>),
                  tray_backend_is_embedded(backend))
       ELSE CASE platform = "linux" ->
                   Query(Opt(backend # NULL, <<"app_indicator_get_status">>),
                         tray_linux_is_embedded(backend))
              [] platform = "windows" -> Query(<< >>, tray_windows_is_embedded(backend))
              [] platform = "macos" -> Query(<< >>, tray_macos_is_embedded(backend))
    /\ UNCHANGED hist

HostSetActivateCallback(via, backend, cb) ==
    /\ HostCall("set_activate_callback", via, backend, cb)
    /\ IF via = "dispatcher"
       THEN tray_backend_set_activate_callback(backend, cb)
       ELSE CASE platform = "linux" -> tray_linux_set_activate_callback(backend, cb)
              [] platform = "windows" -> tray_windows_set_activate_callback(backend, cb)
              [] platform = "macos" -> tray_macos_set_activate_callback(backend, cb)
    /\ UNCHANGED hist

HostSetMenuCallback(via, backend, cb, k) ==
    /\ HostCall("set_menu_callback", via, backend, cb)
    /\ IF via = "dispatcher"
       THEN tray_backend_set_menu_callback(backend, cb, k)
       ELSE CASE platform = "linux" -> tray_linux_set_menu_callback(backend, cb, k)
              [] platform = "windows" -> tray_windows_set_menu_callback(backend, cb)
              [] platform = "macos" -> tray_macos_set_menu_callback(backend, cb)
    /\ UNCHANGED hist

HostSetEmbeddedCallback(via, backend, cb) ==
    /\ HostCall("set_embedded_callback", via, backend, cb)
    /\ IF via = "dispatcher"
       THEN tray_backend_set_embedded_callback(backend, cb)
       ELSE CASE platform = "linux" -> tray_linux_set_embedded_callback(backend, cb)
              [] platform = "windows" -> tray_windows_set_embedded_callback(backend, cb)
              [] platform = "macos" -> tray_macos_set_embedded_callback(backend, cb)
    /\ UNCHANGED hist

\* Only tray-linux.c has a rebuild_menu of its own.
HostRebuildMenu(via, backend, k) ==
    /\ via = "backend" => platform = "linux"
    /\ HostCall("rebuild_menu", via, backend, << >>)
    /\ IF via = "dispatcher"
       THEN tray_backend_rebuild_menu(backend, k)
       ELSE tray_linux_rebuild_menu(backend, k)
    /\ UNCHANGED hist

HostDestroy(via, backend) ==
    /\ HostCall("destroy", via, backend, << >>)
    /\ IF via = "dispatcher"
       THEN tray_backend_destroy(backend)
       ELSE CASE platform = "linux" -> tray_linux_destroy(backend)
              [] platform = "windows" -> tray_windows_destroy(backend)
              [] platform = "macos" -> tray_macos_destroy(backend)
    /\ UNCHANGED hist

\* The shell delivers a mouse message for the registered icon to the hidden window.
WinTrayMessage(button) ==
    /\ platform = "windows"
    /\ hstate = "live"
    /\ winEnv.reg
    /\ call' = Call("tray_wndproc", "os", H, <<button>>)
    /\ tray_wndproc(button)
    /\ UNCHANGED <<platform, nops, hist, bitmap, update_state, updEnv>>

\* NSApp's run loop starts.
MacRunLoopStart ==
    /\ platform = "macos"
    /\ ~macEnv.running
    /\ ~macEnv.crashed
    /\ macEnv' = [macEnv EXCEPT !.running = TRUE]
    /\ call' = Call("run", "os", NULL, << >>)
    /\ eff' = Effect(<< >>, << >>, "void")
    /\ UNCHANGED <<platform, hstate, nops, hist, nextId, pixRef, win, winEnv, lin, linEnv, mac,
                   bitmap, update_state, updEnv>>

\* The GLib main loop fires the 100 ms timeout source.
MacPoll(allocOk, hasButton, convOk, crash) ==
    /\ platform = "macos"
    /\ macEnv.poll = "scheduled"
    /\ ~macEnv.crashed
    /\ call' = Call("create_status_item_deferred", "os", NULL, << >>)
    /\ create_status_item_deferred(allocOk, hasButton, convOk, crash)
    /\ UNCHANGED <<platform, nops, hist, bitmap, update_state, updEnv>>

\* The user clicks the status item's button.
MacClick(event) ==
    /\ platform = "macos"
    /\ hstate = "live"
    /\ mac.statusItem \in macEnv.items
    /\ macEnv.itemVisible
    /\ macEnv.hasButton
    /\ macEnv.button.target # 0
    /\ call' = Call("onStatusItemClicked", "os", NULL, <<event>>)
    /\ onStatusItemClicked(event)
    /\ UNCHANGED <<platform, nops, hist, bitmap, update_state, updEnv>>

Init ==
    /\ platform \in Platforms
    /\ hstate = "none"
    /\ nops = 0
    /\ call = Call("init", "none", NULL, << >>)
    /\ eff = Effect(<< >>, << >>, "void")
    /\ hist = Hist0
    /\ nextId = 1
    /\ pixRef = NoRefs
    /\ win = WinBackend0
    /\ winEnv = WinEnv0
    /\ lin = LinBackend0
    /\ linEnv = LinEnv0
    /\ mac = MacBackend0
    /\ macEnv = MacEnv0
    /\ bitmap = Bitmap0
    /\ update_state = UpdateState0
    /\ updEnv = UpdEnv0

Next ==
    \/ \E via \in Vias, icon \in NewImageArgs, tooltip \in TooltipArgs, ok1, ok2 \in BOOLEAN :
          HostNew(via, icon, tooltip, ok1, ok2)
    \/ \E via \in Vias, backend \in HandleArgs, icon \in ImageArgs, ok \in BOOLEAN :
          HostSetIcon(via, backend, icon, ok)
    \/ \E via \in Vias, backend \in HandleArgs, tooltip \in TooltipArgs :
          HostSetTooltip(via, backend, tooltip)
    \/ \E via \in Vias, backend \in HandleArgs, visible, ok \in BOOLEAN :
          HostSetVisible(via, backend, visible, ok)
    \/ \E via \in Vias, backend \in HandleArgs :
          HostIsEmbedded(via, backend)
    \/ \E via \in Vias, backend \in HandleArgs, cb \in CallbackArgs :
          HostSetActivateCallback(via, backend, cb)
    \/ \E via \in Vias, backend \in HandleArgs, cb \in CallbackArgs, k \in 0..MaxItems :
          HostSetMenuCallback(via, backend, cb, k)
    \/ \E via \in Vias, backend \in HandleArgs, cb \in CallbackArgs :
          HostSetEmbeddedCallback(via, backend, cb)
    \/ \E via \in Vias, backend \in HandleArgs, k \in 0..MaxItems :
          HostRebuildMenu(via, backend, k)
    \/ \E via \in Vias, backend \in HandleArgs :
          HostDestroy(via, backend)
    \/ \E button \in {"WM_LBUTTONUP", "WM_RBUTTONUP", "WM_MOUSEMOVE"} :
          WinTrayMessage(button)
    \/ MacRunLoopStart
    \/ \E allocOk, hasButton, convOk, crash \in BOOLEAN :
          MacPoll(allocOk, hasButton, convOk, crash)
    \/ \E event \in {"left", "right", "ctrl-left"} :
          MacClick(event)

Spec == Init /\ [][Next]_vars

\* The pixel copy on its own: pixel (0, 0) takes every red value with every
\* alpha value, its green and blue are red shifted by 85 and 170 so that each
\* channel takes every value with every alpha and no two channels agree.
FirstPixels ==
    {<<r, (r + 85) % 256, (r + 170) % 256, a>> : r \in Byte, a \in Byte}

PixelInit ==
    /\ platform = "windows"
    /\ hstate = "none"
    /\ nops = 0
    /\ call = Call("pixbuf_to_hicon", "none", NULL, << >>)
    /\ eff = Effect(<< >>, << >>, "void")
    /\ hist = Hist0
    /\ nextId = 1
    /\ pixRef = NoRefs
    /\ win = WinBackend0
    /\ winEnv = WinEnv0
    /\ lin = LinBackend0
    /\ linEnv = LinEnv0
    /\ mac = MacBackend0
    /\ macEnv = MacEnv0
    /\ update_state = UpdateState0
    /\ updEnv = UpdEnv0
    /\ \E first \in FirstPixels, channels \in {3, 4} :
          /\ channels = 3 => first[4] = 255
          /\ bitmap = [Bitmap0 EXCEPT !.channels = channels,
                                      !.pixels = Pixels(first, channels),
                                      !.pc = "copy"]

PixelNext ==
    /\ copy_pixel
    /\ UNCHANGED <<platform, hstate, nops, call, eff, hist, nextId, pixRef,
                   win, winEnv, lin, linEnv, mac, macEnv, update_state, updEnv>>

PixelSpec == PixelInit /\ [][PixelNext]_vars

\* The update checker on its own: the host's calls and the completions of
\* the requests it started.
UpdateInit ==
    /\ platform = "windows"
    /\ hstate = "none"
    /\ nops = 0
    /\ call = Call("init", "none", NULL, << >>)
    /\ eff = Effect(<< >>, << >>, "void")
    /\ hist = Hist0
    /\ nextId = 1
    /\ pixRef = NoRefs
    /\ win = WinBackend0
    /\ winEnv = WinEnv0
    /\ lin = LinBackend0
    /\ linEnv = LinEnv0
    /\ mac = MacBackend0
    /\ macEnv = MacEnv0
    /\ bitmap = Bitmap0
    /\ update_state = UpdateState0
    /\ updEnv = UpdEnv0

UpdateNext ==
    \/ update_checker_init
    \/ update_checker_cleanup
    \/ \E url \in UrlArgs : update_checker_set_appcast_url(url)
    \/ \E enabled \in BOOLEAN : update_checker_set_automatic_checks(enabled)
    \/ \E crash \in BOOLEAN : update_checker_check_with_ui(crash)
    \/ \E crash \in BOOLEAN : update_checker_check_silently(crash)
    \/ \E s \in updEnv.inflight,
          result \in {"send_error", "read_error", "parse_error", "parsed"},
          version \in AppcastVersions :
          update_check_callback(s, result, version)

UpdateSpec == UpdateInit /\ [][UpdateNext]_vars

\* show_update_dialog on its own: every appcast version against every
\* PACKAGE_VERSION, with and without the "up to date" dialog.
VersionInit ==
    /\ platform = "windows"
    /\ hstate = "none"
    /\ nops = 0
    /\ call = Call("init", "none", NULL, << >>)
    /\ eff = Effect(<< >>, << >>, "void")
    /\ hist = Hist0
    /\ nextId = 1
    /\ pixRef = NoRefs
    /\ win = WinBackend0
    /\ winEnv = WinEnv0
    /\ lin = LinBackend0
    /\ linEnv = LinEnv0
    /\ mac = MacBackend0
    /\ macEnv = MacEnv0
    /\ bitmap = Bitmap0
    /\ update_state = UpdateState0
    /\ \E version \in Versions, package_version \in Versions, show_no_update \in BOOLEAN :
          updEnv = [UpdEnv0 EXCEPT !.fn = "parse_appcast",
                                   !.result = "parsed",
                                   !.info = Info(version),
                                   !.package_version = package_version,
                                   !.show_no_update = show_no_update]

VersionNext ==
    /\ updEnv.fn = "parse_appcast"
    /\ UpdStep("show_update_dialog", update_state,
               [updEnv EXCEPT !.dialog = show_update_dialog(updEnv.info,
                                                            updEnv.package_version,
                                                            updEnv.show_no_update)])

VersionSpec == VersionInit /\ [][VersionNext]_vars

(***************************************************************************)
(* Properties                                                              *)
(***************************************************************************)
\* The step just taken is a host call (not an OS event, not stuttering).
IsHostCall == nops' = nops + 1

\* Number of entries of a sequence of native calls that are the call c.
Count(seq, c) == Cardinality({i \in 1..Len(seq) : seq[i] = c})

\* The step is fn called on the live handle of the Windows build.
WinCallOnHandle(fn) ==
    /\ IsHostCall
    /\ platform = "windows"
    /\ call'.fn = fn
    /\ call'.backend = H

\* C1: on the shell-notification-icon backend a set_visible call on a live
\* handle issues one "add" exactly when it asks for visible while the handle
\* is hidden, one "delete" exactly when it asks for hidden while the handle is
\* shown, and never a "modify"; a call asking for the state the handle is in
\* issues no shell request, invokes no callback and changes nothing; create
\* issues no shell request.  Hence create, set_visible(true), set_visible(true)
\* issues exactly one add and no modify.
C1_SetVisibleStep ==
    WinCallOnHandle("set_visible") =>
        LET visible == call'.arg = <<"TRUE">>
            add == IF visible /\ ~win.visible THEN 1 ELSE 0
            del == IF ~visible /\ win.visible THEN 1 ELSE 0
        IN /\ winEnv'.adds = winEnv.adds + add
           /\ winEnv'.deletes = winEnv.deletes + del
           /\ winEnv'.modifies = winEnv.modifies
           /\ Count(eff'.native, "NIM_ADD") = add
           /\ Count(eff'.native, "NIM_DELETE") = del
           /\ Count(eff'.native, "NIM_MODIFY") = 0
           /\ visible = win.visible =>
                 /\ eff'.native = << >>
                 /\ eff'.cbs = << >>
                 /\ UNCHANGED <<win, winEnv>>
C1_CreateStep ==
    (IsHostCall /\ platform = "windows" /\ call'.fn = "new") =>
        /\ winEnv'.adds = 0 /\ winEnv'.modifies = 0 /\ winEnv'.deletes = 0
        /\ ~winEnv'.reg
C1_SetVisibleIdempotent == [][C1_SetVisibleStep /\ C1_CreateStep]_vars

\* C1 witness: create, set_visible(true), set_visible(true) again: the second
\* call issued nothing, one add and no modify in total.
C1_Witness ==
    /\ platform = "windows"
    /\ nops = 3
    /\ call.fn = "set_visible" /\ call.backend = H /\ call.arg = <<"TRUE">>
    /\ eff.native = << >>
    /\ win.visible
    /\ winEnv.adds = 1 /\ winEnv.modifies = 0 /\ winEnv.deletes = 0

\* C2: on the shell-notification-icon backend every step issues as many
\* "modify" requests as this: one if it is set_icon with an image or
\* set_tooltip with a text on a handle that is shown, none otherwise.
C2_ModifyStep ==
    platform = "windows" =>
        LET setter == \/ WinCallOnHandle("set_icon") /\ call'.arg # <<NULL>>
                      \/ WinCallOnHandle("set_tooltip") /\ call'.arg # <<NULL>>
            n == IF setter /\ win.visible THEN 1 ELSE 0
        IN /\ winEnv'.modifies = winEnv.modifies + n
           /\ Count(eff'.native, "NIM_MODIFY") = n
C2_ModifyOnlyWhenShown == [][C2_ModifyStep]_vars

\* C2 witness: set_icon with an image on a shown handle issued a modify.
C2_Witness ==
    /\ platform = "windows"
    /\ call.fn = "set_icon" /\ call.backend = H /\ call.arg # <<NULL>>
    /\ win.visible
    /\ Count(eff.native, "NIM_MODIFY") = 1
    /\ winEnv.modifies = 1

\* The step is fn called on the live handle with the backend's own function
\* or through the dispatcher of a build that forwards.
CallOnHandle(fn) ==
    /\ IsHostCall
    /\ call'.fn = fn
    /\ call'.backend = H

\* A conversion made in the step produced nothing.
ConversionFailed(native) ==
    \E i \in 1..Len(native) :
        native[i] \in {"pixbuf_to_hicon=NULL", "gdk_pixbuf_save=FALSE", "pixbuf_to_nsimage=NULL"}

\* C3 as claimed: a set_icon whose conversion fails leaves the cached current
\* icon, the native icon resource and the displayed icon as they were.
C3_FailedSetIconStep ==
    (CallOnHandle("set_icon") /\ ConversionFailed(eff'.native)) =>
        /\ win'.current_icon = win.current_icon
        /\ win'.hicon = win.hicon
        /\ winEnv'.shellIcon = winEnv.shellIcon
        /\ lin'.current_icon = lin.current_icon
        /\ lin'.temp_icon_path = lin.temp_icon_path
        /\ linEnv'.files = linEnv.files
        /\ mac'.currentIcon = mac.currentIcon
        /\ mac'.currentImage = mac.currentImage
        /\ macEnv'.button.image = macEnv.button.image
C3_FailedConversionKeepsIcon == [][C3_FailedSetIconStep]_vars

\* What a destroyed handle of the Linux or Windows build may leave behind: nothing.
NothingLeft ==
    /\ linEnv.files = {}
    /\ ~linEnv.indicatorAlive
    /\ ~linEnv.menuAlive
    /\ linEnv.items = {}
    /\ winEnv.hicons = {}
    /\ ~winEnv.hwndAlive
    /\ ~winEnv.reg
    /\ pixRef = NoRefs

\* C4: on the desktop-indicator and shell-notification-icon backends, once
\* destroy of the live handle has returned nothing the handle acquired is
\* left: no temp icon file, no native icon object, no hidden window, no shell
\* registration, no indicator or menu, no reference on a source image.
C4_DestroyReleasesAll ==
    (platform \in {"linux", "windows"} /\ hstate = "freed") => NothingLeft

\* C4 witness: a handle created with an image, given another image by
\* set_icon, and destroyed.
C4_Witness ==
    /\ platform = "linux"
    /\ hstate = "freed"
    /\ call.fn = "destroy"
    /\ hist.icon # NULL
    /\ hist.iconSet
    /\ Count(eff.native, "unlink") = 1

\* C5 as claimed: on the status-bar-item backend nothing touches a destroyed
\* handle and no status item exists for it, however destroy interleaves with
\* the deferred-creation poll.
C5_NoUseAfterDestroy ==
    (platform = "macos" /\ hstate = "freed") => (~macEnv.uaf /\ macEnv.items = {})

\* C6 as claimed: when every invocation of the poll found the run loop not
\* running and the poll has ended, no status item was allocated and the handle
\* is not realized.
C6_ExhaustionCreatesNothing ==
    (platform = "macos" /\ hstate = "live" /\ macEnv.poll = "removed" /\ ~macEnv.sawRunning) =>
        (macEnv.items = {} /\ mac.statusItem = 0)

\* C7 as claimed: while the handle has no status item, set_icon, set_tooltip
\* and set_visible of the status-bar-item backend change nothing of the
\* handle, so is_embedded answers as before.
C7_PendingStep ==
    (/\ platform = "macos"
     /\ call'.via = "backend"
     /\ mac.statusItem = 0
     /\ \/ CallOnHandle("set_icon")
        \/ CallOnHandle("set_tooltip")
        \/ CallOnHandle("set_visible")) =>
        /\ tray_macos_is_embedded(H)' = tray_macos_is_embedded(H)
        /\ mac' = mac
C7_PendingOpsAreNoOps == [][C7_PendingStep]_vars

\* is_embedded of the build's backend.
IsEmbedded(backend) ==
    CASE platform = "linux" -> tray_linux_is_embedded(backend)
      [] platform = "windows" -> tray_windows_is_embedded(backend)
      [] platform = "macos" -> tray_macos_is_embedded(backend)

\* The handle has no icon of any kind.
NoIcon ==
    /\ win.current_icon = NULL /\ win.hicon = 0 /\ win.nid.hIcon = 0
    /\ lin.current_icon = NULL /\ lin.temp_icon_path = NULL
    /\ mac.currentIcon = NULL /\ mac.currentImage = 0 /\ macEnv.button.image = 0

\* The live handle came from create(NULL, NULL).
CreatedBare == hstate = "live" /\ hist.icon = NULL /\ hist.tooltip = NULL

NullCall ==
    /\ IsHostCall
    /\ call'.fn # "new"
    /\ \/ call'.backend = NULL
       \/ call'.fn \in {"set_icon", "set_tooltip"} /\ call'.arg = <<NULL>>

\* C9: an operation of the dispatcher or of a backend called with the null
\* handle, set_icon with no image and set_tooltip with no text make no native
\* call, invoke no callback and change nothing; is_embedded(NULL) is false.
C9_NullStep ==
    NullCall =>
        /\ eff'.native = << >>
        /\ eff'.cbs = << >>
        /\ call'.fn = "is_embedded" => eff'.ret = "FALSE"
        /\ UNCHANGED <<hstate, nextId, pixRef, win, winEnv, lin, linEnv, mac, macEnv>>
C9_NullArgumentsAreNoOps == [][C9_NullStep]_vars

\* C9 witness: set_tooltip with no text called directly on the live handle
\* of the desktop-indicator backend.
C9_Witness ==
    /\ platform = "linux"
    /\ hstate = "live"
    /\ call.fn = "set_tooltip" /\ call.via = "backend" /\ call.backend = H /\ call.arg = <<NULL>>
    /\ eff.native = << >>

\* C10: rebuild_menu on a desktop-indicator handle with a menu callback
\* destroys every item the menu held, invokes the callback exactly once with
\* (menu, 3, 0, userdata), and leaves in the menu the items of that one
\* invocation and no other.
C10_RebuildStep ==
    (/\ platform = "linux"
     /\ CallOnHandle("rebuild_menu")
     /\ lin.menu_callback[1] # NULL) =>
        /\ Count(eff'.native, "gtk_widget_destroy") = Cardinality(linEnv.items)
        /\ linEnv'.items \cap linEnv.items = {}
        /\ linEnv'.builds = linEnv.builds + 1
        /\ \A item \in linEnv'.items : item[1] = linEnv'.builds
        /\ eff'.cbs = << <<"menu", lin.menu_callback[1], "menu", 3, 0, lin.menu_callback[2]>> >>
C10_RebuildMenuExact == [][C10_RebuildStep]_vars

\* C10 witness: a rebuild that destroyed an item of the earlier build and
\* left the item of its own.
C10_Witness ==
    /\ platform = "linux"
    /\ call.fn = "rebuild_menu" /\ call.backend = H
    /\ Count(eff.native, "gtk_widget_destroy") = 1
    /\ linEnv.builds = 2
    /\ linEnv.items = {<<2, 1>>}

\* Number of invocations of the callback of the given kind in a call's record.
Invoked(cbs, kind) == Cardinality({i \in 1..Len(cbs) : cbs[i][1] = kind})

\* The step is set_visible(H, TRUE) on a hidden shell-notification-icon handle.
WinShowStep ==
    /\ WinCallOnHandle("set_visible")
    /\ call'.arg = <<"TRUE">>
    /\ ~win.visible

\* C11 as claimed: set_visible(true) on a hidden handle whose shell "add"
\* request fails (the shell holds no icon afterwards) does not invoke the
\* embedded-state-changed callback.
C11_FailedAddStep ==
    (WinShowStep /\ ~winEnv'.reg) => Invoked(eff'.cbs, "embedded") = 0
C11_CallbackOnlyOnSuccessfulAdd == [][C11_FailedAddStep]_vars

\* C12 as claimed: a step that invokes the embedded-state-changed callback
\* is a step of the shell-notification-icon backend.
C12_EmbeddedStep ==
    Invoked(eff'.cbs, "embedded") > 0 => platform = "windows"
C12_OnlyShellInvokesEmbedded == [][C12_EmbeddedStep]_vars

\* C12 amended: the desktop-indicator backend never invokes the
\* embedded-state-changed callback; the shell-notification-icon backend
\* invokes the registered one once in set_visible(true) on a hidden handle and
\* nowhere else; the status-bar-item backend invokes it once, inside
\* set_embedded_callback itself when given a non-null callback, and nowhere
\* else.
C12_EmbeddedCountStep ==
    LET n == Invoked(eff'.cbs, "embedded")
        onShow == WinShowStep /\ win.embedded_callback[1] # NULL
        onRegister == /\ platform = "macos"
                      /\ CallOnHandle("set_embedded_callback")
                      /\ call'.via = "backend"
                      /\ call'.arg[1] # NULL
    IN /\ platform = "linux" => n = 0
       /\ platform = "windows" => n = (IF onShow THEN 1 ELSE 0)
       /\ platform = "macos" => n = (IF onRegister THEN 1 ELSE 0)
       /\ onShow => eff'.cbs = << <<"embedded", win.embedded_callback[1],
                                    win.embedded_callback[2]>> >>
       /\ onRegister => eff'.cbs = << <<"embedded", call'.arg[1], call'.arg[2]>> >>
C12_EmbeddedInvocations == [][C12_EmbeddedCountStep]_vars

\* C12 witness: the status-bar-item backend has just invoked the callback
\* given to set_embedded_callback.
C12_Witness ==
    /\ platform = "macos"
    /\ call.fn = "set_embedded_callback"
    /\ Invoked(eff.cbs, "embedded") = 1
    /\ mac.embeddedCallback = CbA

\* What a click of the given kind must invoke when the slots hold act and menu.
ClickInvokes(secondary, act, menu) ==
    IF secondary
    THEN Opt(menu[1] # NULL, << <<"menu", menu[1], NULL, 3, GDK_CURRENT_TIME, menu[2]>> >>)
    ELSE Opt(act[1] # NULL, << <<"activate", act[1], act[2]>> >>)

\* C13 as claimed: on the status-bar-item backend a primary click on the
\* realized item invokes the activation callback last registered on the
\* handle, and a secondary or control-modified primary click the menu callback
\* last registered on the handle with (NULL, 3, current time, userdata),
\* whether they were registered before or after the item was realized.
C13_ClickStep ==
    (platform = "macos" /\ call'.fn = "onStatusItemClicked") =>
        eff'.cbs = ClickInvokes(call'.arg[1] \in {"right", "ctrl-left"},
                                mac.activateCallback, mac.menuCallback)
C13_ClickReachesRegisteredCallback == [][C13_ClickStep]_vars

\* C14: on the shell-notification-icon backend a primary-button-release tray
\* message invokes the registered activation callback and does nothing else;
\* a secondary-button-release message with a menu callback registered raises
\* the hidden window, then invokes the menu callback with (NULL, 3, current
\* time, userdata), then posts one no-op message; with the slot empty, and
\* for any other mouse message, nothing is called.
C14_TrayMessageStep ==
    (platform = "windows" /\ call'.fn = "tray_wndproc") =>
        LET button == call'.arg[1]
            primary == button = "WM_LBUTTONUP"
            secondary == button = "WM_RBUTTONUP"
        IN /\ UNCHANGED <<win, winEnv, hstate, pixRef>>
           /\ eff'.cbs = IF primary \/ secondary
                         THEN ClickInvokes(secondary, win.activate_callback, win.menu_callback)
                         ELSE << >>
           /\ eff'.order = IF secondary /\ win.menu_callback[1] # NULL
                           THEN <<"SetForegroundWindow", "callback:menu", "PostMessage">>
                           ELSE CbLabels(eff'.cbs)
           /\ Len(eff'.native) + Len(eff'.cbs) = Len(eff'.order)
C14_TrayMessageDispatch == [][C14_TrayMessageStep]_vars

\* C14 witness: a secondary-button release delivered to a handle with a menu
\* callback.
C14_Witness ==
    /\ platform = "windows"
    /\ call.fn = "tray_wndproc"
    /\ call.arg = <<"WM_RBUTTONUP">>
    /\ win.menu_callback = CbA
    /\ eff.order = <<"SetForegroundWindow", "callback:menu", "PostMessage">>

\* The source pixel with index n in scan order, as (r, g, b, a); a 3-channel
\* pixel has no alpha byte and counts as a = 255.
SourcePixel(n) ==
    LET src == (n \div ImgWidth) * Rowstride(bitmap.channels) + (n % ImgWidth) * bitmap.channels
    IN <<bitmap.pixels[src], bitmap.pixels[src + 1], bitmap.pixels[src + 2],
         IF bitmap.channels = 4 THEN bitmap.pixels[src + 3] ELSE 255>>

\* The premultiplied value of a colour channel, in unbounded arithmetic.
Premultiplied(c, a) == IF a < 255 THEN (c * a) \div 255 ELSE c

\* C15: every pixel copied so far is stored as (b', g', r', a) with
\* c' = floor(c * a / 255) when a < 255 and c' = c when a = 255, alpha
\* unchanged, a 3-channel pixel taken as a = 255; no channel shows a product
\* wrapped to 8 bits and every stored colour channel is at most a.
C15_PremultipliedBGRA ==
    \A n \in 0..((Len(bitmap.dest) \div 4) - 1) :
        LET p == SourcePixel(n)
            out == SubSeq(bitmap.dest, 4 * n + 1, 4 * n + 4)
        IN /\ out = <<Premultiplied(p[3], p[4]), Premultiplied(p[2], p[4]),
                      Premultiplied(p[1], p[4]), p[4]>>
           /\ \A i \in 1..3 : out[i] \in Byte /\ out[i] <= p[4]
           /\ bitmap.channels = 3 => out[4] = 255

\* C15 witness: the copy is finished and its first pixel, (255, 84, 169) at
\* alpha 128, was stored premultiplied in blue, green, red order.
C15_Witness ==
    /\ bitmap.pc = "done"
    /\ bitmap.channels = 4
    /\ SourcePixel(0) = <<255, 84, 169, 128>>
    /\ SubSeq(bitmap.dest, 1, 4) = <<84, 42, 128, 128>>
    /\ Len(bitmap.dest) = 4 * ImgWidth * ImgHeight

\* The operation fn of the backend written for the build's platform, applied
\* to the arguments of the recorded call; ok1, ok2 and k are the answers of
\* the environment and of the host's menu delegate.
SelectedBackendOp(fn, backend, arg, ok1, ok2, k) ==
    CASE fn = "new" ->
           (CASE platform = "linux" -> tray_linux_new(arg[1], arg[2], ok1)
             [] platform = "windows" -> tray_windows_new(arg[1], arg[2], ok1, ok2)
             [] platform = "macos" -> tray_macos_new(arg[1], arg[2]))
      [] fn = "set_icon" ->
           (CASE platform = "linux" -> tray_linux_set_icon(backend, arg[1], ok1)
             [] platform = "windows" -> tray_windows_set_icon(backend, arg[1], ok1)
             [] platform = "macos" -> tray_macos_set_icon(backend, arg[1], ok1))
      [] fn = "set_tooltip" ->
           (CASE platform = "linux" -> tray_linux_set_tooltip(backend, arg[1])
             [] platform = "windows" -> tray_windows_set_tooltip(backend, arg[1])
             [] platform = "macos" -> tray_macos_set_tooltip(backend, arg[1]))
      [] fn = "set_visible" ->
           (CASE platform = "linux" -> tray_linux_set_visible(backend, arg[1] = "TRUE")
             [] platform = "windows" -> tray_windows_set_visible(backend, arg[1] = "TRUE", ok1)
             [] platform = "macos" -> tray_macos_set_visible(backend, arg[1] = "TRUE"))
      [] fn = "is_embedded" ->
           /\ eff'.ret = BoolStr(IsEmbedded(backend))
           /\ UNCHANGED <<hstate, nextId, pixRef, win, winEnv, lin, linEnv, mac, macEnv>>
      [] fn = "set_activate_callback" ->
           (CASE platform = "linux" -> tray_linux_set_activate_callback(backend, arg)
             [] platform = "windows" -> tray_windows_set_activate_callback(backend, arg)
             [] platform = "macos" -> tray_macos_set_activate_callback(backend, arg))
      [] fn = "set_menu_callback" ->
           (CASE platform = "linux" -> tray_linux_set_menu_callback(backend, arg, k)
             [] platform = "windows" -> tray_windows_set_menu_callback(backend, arg)
             [] platform = "macos" -> tray_macos_set_menu_callback(backend, arg))
      [] fn = "set_embedded_callback" ->
           (CASE platform = "linux" -> tray_linux_set_embedded_callback(backend, arg)
             [] platform = "windows" -> tray_windows_set_embedded_callback(backend, arg)
             [] platform = "macos" -> tray_macos_set_embedded_callback(backend, arg))
      [] fn = "destroy" ->
           (CASE platform = "linux" -> tray_linux_destroy(backend)
             [] platform = "windows" -> tray_windows_destroy(backend)
             [] platform = "macos" -> tray_macos_destroy(backend))
      [] fn = "rebuild_menu" ->
           IF platform = "linux" THEN tray_linux_rebuild_menu(backend, k) ELSE NoOp("void")

\* C16 as claimed: on each of the three platforms a dispatcher operation
\* (tray_backend_new, or any operation on the non-null handle) has exactly the
\* effect and the result of the same operation of that platform's backend.
C16_DispatcherStep ==
    (/\ IsHostCall
     /\ call'.via = "dispatcher"
     /\ call'.fn = "new" \/ call'.backend = H) =>
        \E ok1, ok2 \in BOOLEAN, k \in 0..MaxItems :
            SelectedBackendOp(call'.fn, call'.backend, call'.arg, ok1, ok2, k)
C16_DispatcherForwards == [][C16_DispatcherStep]_vars

\* C17: on the desktop-indicator backend is_embedded answers true exactly
\* when the indicator status is Active; set_visible(false) makes the status
\* Passive and set_visible(true) makes it Active, and neither destroys or
\* replaces the indicator, whatever calls came before.
C17_StatusStep ==
    platform = "linux" =>
        /\ CallOnHandle("is_embedded") =>
               /\ eff'.ret = BoolStr(linEnv.status = "ACTIVE")
               /\ linEnv' = linEnv
        /\ CallOnHandle("set_visible") =>
               /\ linEnv'.status = (IF call'.arg = <<"TRUE">> THEN "ACTIVE" ELSE "PASSIVE")
               /\ linEnv'.indicatorAlive
               /\ lin'.indicator = lin.indicator
               /\ tray_linux_is_embedded(H)' = (call'.arg = <<"TRUE">>)
C17_EmbeddedIffActive == [][C17_StatusStep]_vars

\* C17 witness: the indicator was hidden and set_visible(true) has brought it
\* back to Active.
C17_Witness ==
    /\ platform = "linux"
    /\ hstate = "live"
    /\ hist.hidden
    /\ call.fn = "set_visible" /\ call.backend = H /\ call.arg = <<"TRUE">>
    /\ linEnv.status = "ACTIVE"
    /\ linEnv.indicatorAlive

\* C18: on the desktop-indicator backend, when create returns the indicator
\* exists, an empty menu is attached to it and the status is Active, so
\* is_embedded is true, with or without an initial image and whether or not
\* the image could be saved.
C18_CreateStep ==
    (platform = "linux" /\ IsHostCall /\ call'.fn = "new") =>
        /\ eff'.ret = H
        /\ hstate' = "live"
        /\ linEnv'.indicatorAlive
        /\ lin'.indicator # 0
        /\ linEnv'.menuAlive /\ linEnv'.menuSet /\ lin'.menu # 0
        /\ linEnv'.items = {}
        /\ linEnv'.status = "ACTIVE"
        /\ tray_linux_is_embedded(H)'
C18_CreateIsActive == [][C18_CreateStep]_vars

\* C18 witness: create was given an image that could not be saved.
C18_Witness ==
    /\ platform = "linux"
    /\ call.fn = "new"
    /\ call.arg[1] # NULL
    /\ Count(eff.native, "gdk_pixbuf_save=FALSE") = 1
    /\ linEnv.status = "ACTIVE"
    /\ linEnv.menuSet

\* C19: on the desktop-indicator backend no operation invokes the activation
\* callback.
C19_ActivateNeverInvoked ==
    platform = "linux" => Invoked(eff.cbs, "activate") = 0

\* C19 witness: an activation callback is registered and a later operation
\* has invoked another callback of the handle.
C19_Witness ==
    /\ platform = "linux"
    /\ lin.activate_callback = CbA
    /\ call.fn = "set_menu_callback"
    /\ Invoked(eff.cbs, "menu") = 1

\* Every a in seq comes before every b in seq.
Before(seq, a, b) ==
    \A i, j \in 1..Len(seq) : (seq[i] = a /\ seq[j] = b) => i < j

\* C20: destroy on the shell-notification-icon backend issues a shell
\* "delete" exactly when the handle is shown, and before anything else; then
\* releases the native icon and the source-image reference; then destroys
\* the hidden window.
C20_DestroyStep ==
    WinCallOnHandle("destroy") =>
        LET native == eff'.native
        IN /\ Count(native, "NIM_DELETE") = (IF win.visible THEN 1 ELSE 0)
           /\ win.visible => native[1] = "NIM_DELETE"
           /\ Count(native, "DestroyIcon") = (IF win.hicon # 0 THEN 1 ELSE 0)
           /\ Count(native, "g_object_unref") = (IF win.current_icon # NULL THEN 1 ELSE 0)
           /\ Count(native, "DestroyWindow") = 1
           /\ Before(native, "NIM_DELETE", "DestroyIcon")
           /\ Before(native, "NIM_DELETE", "g_object_unref")
           /\ Before(native, "DestroyIcon", "DestroyWindow")
           /\ Before(native, "g_object_unref", "DestroyWindow")
           /\ Before(native, "NIM_DELETE", "DestroyWindow")
C20_DestroyOrder == [][C20_DestroyStep]_vars

\* C20 witness: destroy of a shown handle that held an icon.
C20_Witness ==
    /\ platform = "windows"
    /\ call.fn = "destroy" /\ call.backend = H
    /\ hstate = "freed"
    /\ eff.native = <<"NIM_DELETE", "DestroyIcon", "g_object_unref", "DestroyWindow",
                      "PostQuitMessage", "g_free">>

\* The step is one invocation of the deferred-creation poll.
PollStep == platform = "macos" /\ call'.fn = "create_status_item_deferred"

\* The poll can be invoked (again).
PollPending == macEnv.poll = "scheduled" /\ ~macEnv.crashed

\* C21: the deferred-creation poll reschedules itself only while the run
\* loop is not running and fewer than 10 retries were made, counting each
\* retry; any other invocation is its last, whatever the run-loop state: the
\* poll is never invoked after it; so it is invoked at most 11 times per
\* create.
C21_PollStep ==
    /\ macEnv'.pollCalls <= MaxRetries + 1
    /\ PollStep =>
          LET retry == ~macEnv.running /\ macEnv.data.attempts < MaxRetries
          IN /\ macEnv'.pollCalls = macEnv.pollCalls + 1
             /\ (eff'.ret = "G_SOURCE_CONTINUE") = retry
             /\ retry => macEnv'.data.attempts = macEnv.data.attempts + 1
             /\ ~retry => ~PollPending'
    /\ (~PollPending /\ hstate # "none") => ~PollPending'
C21_PollTerminates == [][C21_PollStep]_vars

\* C21 witness: the eleventh invocation found the run loop still not running
\* and ended the poll.
C21_Witness ==
    /\ platform = "macos"
    /\ call.fn = "create_status_item_deferred"
    /\ macEnv.pollCalls = MaxRetries + 1
    /\ ~macEnv.running
    /\ macEnv.poll = "removed"
    /\ eff.ret = "G_SOURCE_REMOVE"

\* C22: on the status-bar-item backend is_embedded returns the handle's
\* visibility flag and changes nothing; set_embedded_callback given a
\* non-null callback invokes it once with its userdata before returning, and
\* no other call or event of the backend invokes it.
C22_FlagAndCallbackStep ==
    platform = "macos" =>
        LET registering == /\ CallOnHandle("set_embedded_callback")
                           /\ call'.via = "backend"
                           /\ call'.arg[1] # NULL
        IN /\ (CallOnHandle("is_embedded") /\ call'.via = "backend") =>
                  /\ eff'.ret = BoolStr(mac.visible)
                  /\ UNCHANGED <<mac, macEnv>>
           /\ registering => eff'.cbs = << <<"embedded", call'.arg[1], call'.arg[2]>> >>
           /\ ~registering => Invoked(eff'.cbs, "embedded") = 0
C22_EmbeddedFlagAndCallback == [][C22_FlagAndCallbackStep]_vars

\* C22 witness: is_embedded answered true from the flag the poll had set.
C22_Witness ==
    /\ platform = "macos"
    /\ call.fn = "is_embedded" /\ call.backend = H /\ call.via = "backend"
    /\ eff.ret = "TRUE"
    /\ mac.visible

\* The step is a create on the shell-notification-icon backend whose hidden
\* window could not be created.
WindowFailureStep ==
    /\ platform = "windows"
    /\ IsHostCall
    /\ call'.fn = "new"
    /\ Count(eff'.native, "CreateWindowExW=NULL") = 1

\* C23 as claimed: when the hidden window cannot be created, create still
\* returns a non-null handle, which stays allocated.
C23_FailedCreateStep ==
    WindowFailureStep => (eff'.ret = H /\ hstate' = "live")
C23_HandleSurvivesWindowFailure == [][C23_FailedCreateStep]_vars

\* C23 amended: when the hidden window cannot be created, create frees the
\* handle and returns NULL, leaving no window, icon, image reference or
\* shell registration; every operation the host then makes with that NULL
\* handle does nothing.
C23_NullAfterFailureStep ==
    /\ WindowFailureStep =>
          /\ eff'.ret = NULL
          /\ hstate' = "none"
          /\ eff'.native[Len(eff'.native)] = "g_free"
          /\ UNCHANGED <<win, winEnv, pixRef, nextId>>
    /\ (platform = "windows" /\ hstate = "none" /\ IsHostCall /\ call'.fn # "new") =>
          /\ call'.backend = NULL
          /\ eff'.native = << >>
          /\ eff'.cbs = << >>
          /\ UNCHANGED <<hstate, win, winEnv, pixRef, nextId>>
C23_WindowFailureReturnsNull == [][C23_NullAfterFailureStep]_vars

\* C23 witness: a create that failed to create its window and returned NULL.
C23_Witness ==
    /\ platform = "windows"
    /\ call.fn = "new"
    /\ call.arg[1] # NULL
    /\ Count(eff.native, "CreateWindowExW=NULL") = 1
    /\ eff.ret = NULL
    /\ hstate = "none"
    /\ ~winEnv.hwndAlive
    /\ pixRef = NoRefs

\* C24: create of the status-bar-item backend returns a non-null handle at
\* once, with no status item, not visible (is_embedded false) and with the
\* poll scheduled, also when the run loop is already running; a status item
\* is allocated only by an invocation of the deferred-creation poll.
C24_CreateStep ==
    platform = "macos" =>
        /\ (IsHostCall /\ call'.fn = "new" /\ call'.via = "backend") =>
              /\ eff'.ret = H
              /\ hstate' = "live"
              /\ mac'.statusItem = 0
              /\ macEnv'.items = macEnv.items
              /\ ~tray_macos_is_embedded(H)'
              /\ macEnv'.poll = "scheduled"
              /\ Count(eff'.native, "g_timeout_add") = 1
        /\ ~(macEnv'.items \subseteq macEnv.items) => PollStep
C24_CreateDefersStatusItem == [][C24_CreateStep]_vars

\* C24 witness: create returned while the run loop was already running, and
\* no status item exists yet.
C24_Witness ==
    /\ platform = "macos"
    /\ call.fn = "new" /\ call.via = "backend"
    /\ macEnv.running
    /\ hstate = "live"
    /\ mac.statusItem = 0
    /\ macEnv.items = {}
    /\ macEnv.poll = "scheduled"

\* C25 as claimed: create given a tooltip applies the text to the native tray
\* object whether or not an image was given and converted: to the indicator
\* (as its title or its icon description), to the notification-icon
\* descriptor, and, when the poll realizes the status item, to its button.
C25_TooltipStep ==
    /\ (/\ IsHostCall /\ call'.fn = "new" /\ call'.via = "backend"
        /\ call'.arg[2] # NULL /\ eff'.ret = H) =>
          /\ platform = "linux" => call'.arg[2] \in {linEnv'.title, linEnv'.iconDesc}
          /\ platform = "windows" => win'.nid.szTip = MultiByteToWideChar(call'.arg[2])
    /\ (/\ PollStep /\ hstate = "live" /\ macEnv.data.tooltip # NULL
        /\ mac'.statusItem # 0 /\ macEnv'.hasButton) =>
          macEnv'.button.toolTip = macEnv.data.tooltip
C25_TooltipAppliedWithoutIcon == [][C25_TooltipStep]_vars

\* C26: on the desktop-indicator and shell-notification-icon backends a live
\* handle owns at most one icon resource: the temporary files on disk are
\* exactly the recorded path (none when no path is recorded), the native
\* icons alive are exactly the recorded icon handle (none when it is null),
\* and the handle holds one reference on the cached source image and none on
\* any other image.
C26_OneIconResource ==
    hstate = "live" =>
        /\ platform = "linux" =>
              /\ linEnv.files = IF lin.temp_icon_path # NULL
                                THEN {lin.temp_icon_path} ELSE {}
              /\ pixRef = [i \in Images |-> IF i = lin.current_icon THEN 1 ELSE 0]
        /\ platform = "windows" =>
              /\ winEnv.hicons = IF win.hicon # 0 THEN {win.hicon} ELSE {}
              /\ pixRef = [i \in Images |-> IF i = win.current_icon THEN 1 ELSE 0]

\* C26 witness: an icon created with the handle was superseded by set_icon
\* with another image, and one native icon is alive.
C26_Witness ==
    /\ platform = "windows"
    /\ hstate = "live"
    /\ call.fn = "set_icon"
    /\ hist.iconSet
    /\ hist.icon # NULL
    /\ win.current_icon = call.arg[1]
    /\ win.current_icon # hist.icon
    /\ win.hicon > 1
    /\ winEnv.hicons = {win.hicon}

\* The number of native tray objects a step allocates.
Allocations(native) ==
    Count(native, "app_indicator_new") + Count(native, "CreateWindowExW")
        + Count(native, "statusItemWithLength")

\* C27: a handle never has more than one native tray object.  A native
\* object is allocated only by create (indicator, hidden window) or by the
\* deferred-creation poll (status item), one at a time and only when the
\* handle has none; the poll allocates at most one status item per create;
\* and the shell registration count of a handle, NIM_ADD requests minus
\* NIM_DELETE requests, is 0 or 1: 1 while the handle is shown, 0 otherwise.
C27_ObjectStep ==
    /\ Allocations(eff'.native) <= 1
    /\ Allocations(eff'.native) = 1 =>
          \/ IsHostCall /\ call'.fn = "new" /\ hstate = "none"
                /\ platform \in {"linux", "windows"}
                /\ ~linEnv.indicatorAlive /\ ~winEnv.hwndAlive
          \/ PollStep /\ macEnv.items = {} /\ mac.statusItem = 0 /\ ~PollPending'
    /\ Cardinality(macEnv'.items) <= 1
    /\ winEnv'.adds - winEnv'.deletes \in {0, 1}
    /\ (platform = "windows" /\ hstate' = "live") =>
          (winEnv'.adds - winEnv'.deletes = 1) = win'.visible
    /\ (platform = "windows" /\ hstate' # "live") => winEnv'.adds = winEnv'.deletes
C27_OneNativeObject == [][C27_ObjectStep]_vars

\* C27 witness: a handle already shown was asked to show again, and the
\* shell registration count is still 1.
C27_Witness ==
    /\ platform = "windows"
    /\ hstate = "live"
    /\ call.fn = "set_visible" /\ call.backend = H /\ call.arg = <<"TRUE">>
    /\ eff.native = << >>
    /\ win.visible
    /\ winEnv.hwndAlive
    /\ winEnv.adds = 1
    /\ winEnv.deletes = 0

\* C28 as claimed: on the status-bar-item backend, once destroy has returned
\* and the deferred-creation poll has finished, nothing the backend acquired
\* is still held: no source-image reference, no native image and no tooltip
\* copy.
C28_AllReleasedAfterDestroyAndPoll ==
    (/\ platform = "macos"
     /\ hstate = "freed"
     /\ macEnv.poll = "removed"
     /\ ~macEnv.crashed) =>
        /\ pixRef = NoRefs
        /\ macEnv.images = {}
        /\ macEnv.strs = 0

\* C29 as claimed: on the status-bar-item backend, in every Realized state of
\* a live handle the cached native image is the image installed on the
\* button (both absent, or the same native image).
C29_CachedImageIsButtonImage ==
    (/\ platform = "macos"
     /\ hstate = "live"
     /\ mac.statusItem # 0
     /\ macEnv.hasButton) =>
        mac.currentImage = macEnv.button.image

\* C30 as claimed: on the shell-notification-icon backend, whenever the
\* handle is shown the shell holds a registration whose icon and tooltip are
\* the ones most recently set on the handle (the icon handle and the tooltip
\* buffer of its descriptor), whatever set_icon, set_tooltip and set_visible
\* calls came before.
C30_ShellHoldsLatestIconAndTooltip ==
    (platform = "windows" /\ hstate = "live" /\ win.visible) =>
        /\ winEnv.reg
        /\ winEnv.shellIcon = win.hicon
        /\ winEnv.shellIcon = win.nid.hIcon
        /\ winEnv.shellTip = win.nid.szTip

\* C31 as claimed: on the desktop-indicator backend the menu container
\* holds only items produced by the most recent invocation of the menu
\* delegate, whatever set_menu_callback and rebuild_menu calls came before.
C31_MenuHoldsLatestBuildOnly ==
    (platform = "linux" /\ hstate = "live") =>
        \A it \in linEnv.items : it[1] = linEnv.builds

\* C32 as claimed: in every backend, a step in which the backend invokes the
\* embedded-state-changed callback leaves the handle in a state where
\* is_embedded(handle) returns true (the callback is the last thing the
\* invoking operation does, so this is the state the callback sees).
C32_EmbeddedCallbackStep ==
    Invoked(eff'.cbs, "embedded") > 0 => IsEmbedded(H)'
C32_EmbeddedWhenCallbackInvoked == [][C32_EmbeddedCallbackStep]_vars

\* C33 as claimed: on the shell-notification-icon backend is_embedded(handle)
\* is true only if the shell holds the icon's registration, and a
\* set_visible(true) on a handle whose registration the shell does not hold
\* sends a new "add" request.
C33_EmbeddedStep ==
    platform = "windows" =>
        /\ (hstate' = "live" /\ tray_windows_is_embedded(H)') => winEnv'.reg
        /\ (/\ WinCallOnHandle("set_visible")
            /\ call'.arg = <<"TRUE">>
            /\ hstate = "live"
            /\ ~winEnv.reg) => Count(eff'.native, "NIM_ADD") = 1
C33_EmbeddedOnlyIfRegistered == [][C33_EmbeddedStep]_vars

\* C34 as claimed: destroy on the shell-notification-icon backend posts no
\* quit request to the host thread's message queue.
C34_DestroyStep ==
    (platform = "windows" /\ IsHostCall /\ call'.fn = "destroy") =>
        /\ winEnv'.quitPosted = winEnv.quitPosted
        /\ Count(eff'.native, "PostQuitMessage") = 0
C34_DestroyPostsNoQuit == [][C34_DestroyStep]_vars

\* The step is a check requested by the host.
CheckStep ==
    /\ updEnv'.nops = updEnv.nops + 1
    /\ updEnv'.fn \in {"update_checker_check_with_ui", "update_checker_check_silently"}

\* C35 as claimed: in the update checker at most one request is in flight, a
\* check requested while one is in flight starts no request, and
\* check_in_progress is true exactly while a request is in flight, so that
\* a check made when none is in flight is never refused.
C35_RequestStep ==
    /\ Cardinality(updEnv'.inflight) <= 1
    /\ (CheckStep /\ updEnv.inflight # {}) =>
          updEnv'.sent = updEnv.sent /\ updEnv'.inflight = updEnv.inflight
    /\ ~updEnv'.crashed =>
          update_state'.check_in_progress = (updEnv'.inflight # {})
C35_OneRequestInFlight == [][C35_RequestStep]_vars

\* The components of a version string: the pieces between the dots.
RECURSIVE Split(_, _, _)
Split(v, i, piece) ==
    IF i > Len(v) THEN <<piece>>
    ELSE IF v[i] = "." THEN <<piece>> \o Split(v, i + 1, << >>)
    ELSE Split(v, i + 1, Append(piece, v[i]))

\* A non-empty run of digits, and the number it writes.
IsNumber(piece) == piece # << >> /\ \A i \in 1..Len(piece) : IsDigit(piece[i])
RECURSIVE NumberOf(_)
NumberOf(piece) ==
    IF piece = << >> THEN 0
    ELSE 10 * NumberOf(SubSeq(piece, 1, Len(piece) - 1)) + DigitVal(piece[Len(piece)])

\* A version whose first three components, as far as it has them, are numbers.
WellFormed(v) ==
    LET parts == Split(v, 1, << >>)
    IN \A i \in 1..Len(parts) : i <= 3 => IsNumber(parts[i])

\* (major, minor, patch) of a well-formed version, a missing component being 0.
Triple(v) ==
    LET parts == Split(v, 1, << >>)
    IN [i \in 1..3 |-> IF i <= Len(parts) THEN NumberOf(parts[i]) ELSE 0]

\* The lexicographic order of two triples, as -1, 0 or 1.
LexCompare(x, y) ==
    IF \A i \in 1..3 : x[i] = y[i] THEN 0
    ELSE LET d == CHOOSE i \in 1..3 : x[i] # y[i] /\ \A j \in 1..(i - 1) : x[j] = y[j]
         IN IF x[d] > y[d] THEN 1 ELSE -1

\* C36: compare_versions returns -1, 0 or 1; compare_versions(a, b) is
\* -compare_versions(b, a); it is the lexicographic order of the (major,
\* minor, patch) triples read from the two strings, which for well-formed
\* versions are their components with 0 for each missing one; and
\* show_update_dialog runs the update-available dialog only when the
\* appcast's version compares strictly greater than the running version.
C36_CompareVersions ==
    LET a == updEnv.info.version
        b == updEnv.package_version
        c == compare_versions(a, b)
    IN updEnv.info.present =>
          /\ c \in {-1, 0, 1}
          /\ c = 0 - compare_versions(b, a)
          /\ c = LexCompare(sscanf(a), sscanf(b))
          /\ WellFormed(a) => sscanf(a) = Triple(a)
          /\ (WellFormed(a) /\ WellFormed(b)) => c = LexCompare(Triple(a), Triple(b))
          /\ (updEnv.fn = "show_update_dialog" /\ updEnv.dialog = "update_available") => c = 1

\* C36 witness: appcast version 1.10 against running version 1.1.10: the
\* update-available dialog was run.
C36_Witness ==
    /\ updEnv.fn = "show_update_dialog"
    /\ updEnv.info = Info(<<"1", ".", "1", "0">>)
    /\ updEnv.package_version = <<"1", ".", "1", ".", "1", "0">>
    /\ compare_versions(updEnv.info.version, updEnv.package_version) = 1
    /\ updEnv.dialog = "update_available"

====
